---- MODULE Spec2Model ----
(***************************************************************************)
(* Two-way sync between a lead sheet (Google Sheets) and a task board      *)
(* (Trello) with a SQLite table lead_card_mapping as the record store.     *)
(*                                                                         *)
(* Texts are TLA+ strings; Python None and SQL NULL are the value Null.    *)
(* The table is a set of rows: the autoincrement id and the created_at /   *)
(* updated_at timestamps are not part of a row here (no engine decision    *)
(* reads them), so "the same row" below means equal in every other column. *)
(* A sqlite3.Error other than a constraint violation (disk, lock) is not   *)
(* modelled.                                                               *)
(***************************************************************************)
EXTENDS Integers, Sequences, FiniteSets, TLC

Null == "<None>"

\* ------------------------------------------------------------------ text

CharAt(s, i) == SubSeq(s, i, i)

LowerChars == "abcdefghijklmnopqrstuvwxyz"

UpperChars == "ABCDEFGHIJKLMNOPQRSTUVWXYZ"

IsLower(c) == \E i \in 1..Len(LowerChars) : CharAt(LowerChars, i) = c

IsUpper(c) == \E i \in 1..Len(UpperChars) : CharAt(UpperChars, i) = c

ToUpper(c) ==
    IF IsLower(c)
    THEN CharAt(UpperChars, CHOOSE i \in 1..Len(LowerChars) : CharAt(LowerChars, i) = c)
    ELSE c

ToLower(c) ==
    IF IsUpper(c)
    THEN CharAt(LowerChars, CHOOSE i \in 1..Len(UpperChars) : CharAt(UpperChars, i) = c)
    ELSE c

\* str.lower()
RECURSIVE LowerFrom(_, _)
LowerFrom(s, i) ==
    IF i > Len(s) THEN "" ELSE ToLower(CharAt(s, i)) \o LowerFrom(s, i + 1)

Lower(s) == LowerFrom(s, 1)

\* str.title(): a letter that follows a letter is lowered, any other letter raised
RECURSIVE TitleFrom(_, _, _)
TitleFrom(s, i, afterLetter) ==
    IF i > Len(s) THEN ""
    ELSE LET c == CharAt(s, i)
         IN  (IF afterLetter THEN ToLower(c) ELSE ToUpper(c))
                 \o TitleFrom(s, i + 1, IsLower(c) \/ IsUpper(c))

Title(s) == TitleFrom(s, 1, FALSE)

IsSpace(c) == c = " " \/ c = "\n" \/ c = "\t"

\* str.strip()
RECURSIVE Strip(_)
Strip(s) ==
    IF s = "" THEN ""
    ELSE IF IsSpace(CharAt(s, 1)) THEN Strip(SubSeq(s, 2, Len(s)))
    ELSE IF IsSpace(CharAt(s, Len(s))) THEN Strip(SubSeq(s, 1, Len(s) - 1))
    ELSE s

\* s[:n]
Truncate(s, n) == IF Len(s) <= n THEN s ELSE SubSeq(s, 1, n)

\* s.startswith(p)
StartsWith(s, p) == Len(s) >= Len(p) /\ SubSeq(s, 1, Len(p)) = p

\* p in s
Contains(s, p) ==
    \E i \in 1..(Len(s) + 1) :
        i + Len(p) - 1 <= Len(s) /\ SubSeq(s, i, i + Len(p) - 1) = p

\* Python truthiness of an optional text
Truthy(s) == s # Null /\ s # ""

\* ------------------------------------------------------------------ configuration

\* str(f"{lead_name}_{lead_email}")[:20]
IdLen == 20

Statuses == {"New", "Contacted", "Qualified", "Closed"}

\* The attributes class Config defines for the lanes, with the values the
\* environment of one deployment gives them ("" when the variable is not set).
ConfigOf(new, contacted, qualified, closed) ==
    [TRELLO_NEW_LIST_ID       |-> new,
     TRELLO_CONTACTED_LIST_ID |-> contacted,
     TRELLO_QUALIFIED_LIST_ID |-> qualified,
     TRELLO_CLOSED_LIST_ID    |-> closed]

\* Config.TRELLO_LIST_MAPPING: the lanes that are set, by status
TRELLO_LIST_MAPPING(Config) ==
    LET raw == [s \in Statuses |->
                  CASE s = "New"       -> Config.TRELLO_NEW_LIST_ID
                    [] s = "Contacted" -> Config.TRELLO_CONTACTED_LIST_ID
                    [] s = "Qualified" -> Config.TRELLO_QUALIFIED_LIST_ID
                    [] s = "Closed"    -> Config.TRELLO_CLOSED_LIST_ID]
    IN  [s \in {k \in Statuses : raw[k] # ""} |-> raw[s]]

\* dict.get(key, default)
DictGet(d, key, default) == IF key \in DOMAIN d THEN d[key] ELSE default

\* Variant: the engines read the attributes class Config defines.
EngineLaneAttrDefined ==
    [New       |-> "TRELLO_NEW_LIST_ID",
     Contacted |-> "TRELLO_CONTACTED_LIST_ID",
     Qualified |-> "TRELLO_QUALIFIED_LIST_ID",
     Closed    |-> "TRELLO_CLOSED_LIST_ID"]

\* The Config attribute the engines read for the lane of each status.
EngineLaneAttr ==
    [New       |-> "TRELLO_NEW_LIST_ID",
     Contacted |-> "TRELLO_IN_PROGRESS_LIST_ID",
     Qualified |-> "TRELLO_QUALIFIED_LIST_ID",
     Closed    |-> "TRELLO_DONE_LIST_ID"]

\* Evaluating the dict display of the engines' mapping reads every attribute;
\* an attribute class Config does not define raises AttributeError.
MissingAttrs(Config, attrs) == {s \in DOMAIN attrs : attrs[s] \notin DOMAIN Config}

\* RobustSyncEngine._map_status_to_list_id: [raised, value]
MapStatusToListId(Config, sheet_status) ==
    LET normalized_status ==
            IF Truthy(sheet_status) THEN Title(Strip(sheet_status)) ELSE "New"
    IN  IF MissingAttrs(Config, EngineLaneAttr) # {}
        THEN [raised |-> "AttributeError", value |-> Null]
        ELSE [raised |-> Null,
              value  |-> IF normalized_status \in DOMAIN EngineLaneAttr
                         THEN Config[EngineLaneAttr[normalized_status]]
                         ELSE Null]

\* The reverse dict display: a later key overwrites an equal earlier one
\* (New, Contacted, Qualified, Closed in that order).
ReverseLookup(Config, attrs, list_id) ==
    LET order == <<"New", "Contacted", "Qualified", "Closed">>
        hits  == {i \in 1..Len(order) : Config[attrs[order[i]]] = list_id}
    IN  IF hits = {} THEN "New"
        ELSE order[CHOOSE i \in hits : \A j \in hits : j <= i]

\* RobustSyncEngine._map_list_id_to_status: [raised, value]
MapListIdToStatus(Config, list_id) ==
    IF MissingAttrs(Config, EngineLaneAttr) # {}
    THEN [raised |-> "AttributeError", value |-> Null]
    ELSE [raised |-> Null, value |-> ReverseLookup(Config, EngineLaneAttr, list_id)]

\* TaskClient._get_status_from_list_id: first status of the mapping with that lane
GetStatusFromListId(Config, list_id) ==
    LET m     == TRELLO_LIST_MAPPING(Config)
        order == <<"New", "Contacted", "Qualified", "Closed">>
        hits  == {i \in 1..Len(order) : order[i] \in DOMAIN m /\ m[order[i]] = list_id}
    IN  IF hits = {} THEN "New"
        ELSE order[CHOOSE i \in hits : \A j \in hits : i <= j]

\* ------------------------------------------------------------------ record store

Pending == "PENDING_"

\* The columns of lead_card_mapping declared NOT NULL
NotNullColumns ==
    {"lead_id", "lead_name", "lead_email", "card_id", "card_title",
     "trello_list_id", "current_status"}

NotNullOk(row) == \A c \in NotNullColumns : row[c] # Null

\* lead_id TEXT NOT NULL UNIQUE, card_id TEXT NOT NULL UNIQUE
UniqueConflicts(rows, row) ==
    {r \in rows : r.lead_id = row.lead_id \/ r.card_id = row.card_id}

\* Variant: a table without the UNIQUE constraints
InsertRowUnchecked(rows, row) ==
    IF ~NotNullOk(row)
    THEN [ok |-> FALSE, rows |-> rows]
    ELSE [ok |-> TRUE, rows |-> rows \cup {row}]

\* INSERT INTO lead_card_mapping: a constraint violation raises
\* sqlite3.IntegrityError and leaves the table as it was.  [ok, rows]
InsertRow(rows, row) ==
    IF ~NotNullOk(row) \/ UniqueConflicts(rows, row) # {}
    THEN [ok |-> FALSE, rows |-> rows]
    ELSE [ok |-> TRUE, rows |-> rows \cup {row}]

\* INSERT OR REPLACE: the rows that conflict on a UNIQUE column are deleted first
InsertOrReplaceRow(rows, row) ==
    IF ~NotNullOk(row)
    THEN [ok |-> FALSE, rows |-> rows]
    ELSE [ok |-> TRUE, rows |-> (rows \ UniqueConflicts(rows, row)) \cup {row}]

\* cursor.fetchone() of SELECT * ... WHERE <unique column> = ?: an optional row,
\* written as a set of at most one row ({} is None)
FetchOne(matching) == IF matching = {} THEN {} ELSE {CHOOSE r \in matching : TRUE}

\* the row of a fetched record that is not None
Row(record) == CHOOSE r \in record : TRUE

\* SyncDatabase.get_mapping_by_lead_id
GetMappingByLeadId(rows, lead_id) == FetchOne({r \in rows : r.lead_id = lead_id})

\* SyncDatabase.get_record_by_card_id, get_mapping_by_card_id
GetRecordByCardId(rows, card_id) == FetchOne({r \in rows : r.card_id = card_id})

\* Variant: the row of a new lead is inserted with the lead id as its card id
UpsertWithoutSentinel(rows, lead_id, lead_name, lead_email, lead_phone, lead_company, current_status) ==
    LET row == [lead_id |-> lead_id, lead_name |-> lead_name,
                lead_email |-> lead_email, lead_phone |-> lead_phone,
                lead_company |-> lead_company,
                card_id |-> lead_id,
                card_title |-> lead_name \o " (pending)",
                trello_list_id |-> "PENDING",
                current_status |-> current_status,
                last_synced_status |-> Null,
                last_sync_source |-> "sheets"]
        ins == InsertOrReplaceRow(rows, row)
    IN  [ok |-> ins.ok, action |-> IF ins.ok THEN "created" ELSE "error",
         record |-> IF ins.ok THEN {row} ELSE {}, rows |-> ins.rows]

\* SyncDatabase.upsert_record_from_sheets: [ok, action, record, rows]
UpsertRecordFromSheets(rows, lead_id, lead_name, lead_email, lead_phone, lead_company, current_status) ==
    IF \E r \in rows : r.lead_id = lead_id
    THEN LET upd(r) == [r EXCEPT !.lead_name = lead_name,
                                 !.lead_email = lead_email,
                                 !.lead_phone = lead_phone,
                                 !.lead_company = lead_company,
                                 !.current_status = current_status,
                                 !.last_sync_source = "sheets"]
             rows2  == {IF r.lead_id = lead_id THEN upd(r) ELSE r : r \in rows}
         IN  IF \A r \in rows2 : NotNullOk(r)
             THEN [ok |-> TRUE, action |-> "updated",
                   record |-> GetMappingByLeadId(rows2, lead_id), rows |-> rows2]
             ELSE [ok |-> FALSE, action |-> "error", record |-> {}, rows |-> rows]
    ELSE LET row == [lead_id |-> lead_id, lead_name |-> lead_name,
                     lead_email |-> lead_email, lead_phone |-> lead_phone,
                     lead_company |-> lead_company,
                     card_id |-> Pending \o lead_id,
                     card_title |-> lead_name \o " (pending)",
                     trello_list_id |-> "PENDING",
                     current_status |-> current_status,
                     last_synced_status |-> Null,
                     last_sync_source |-> "sheets"]
             ins == InsertRow(rows, row)
         IN  IF ins.ok
             THEN [ok |-> TRUE, action |-> "created",
                   record |-> GetMappingByLeadId(ins.rows, lead_id), rows |-> ins.rows]
             ELSE [ok |-> FALSE, action |-> "error", record |-> {}, rows |-> rows]

\* SyncDatabase.create_record_with_card: a plain INSERT.  [ok, record, rows]
CreateRecordWithCard(rows, lead_id, lead_name, lead_email, lead_phone, lead_company, card_id, card_title, trello_list_id, current_status) ==
    LET row == [lead_id |-> lead_id, lead_name |-> lead_name,
                lead_email |-> lead_email, lead_phone |-> lead_phone,
                lead_company |-> lead_company,
                card_id |-> card_id, card_title |-> card_title,
                trello_list_id |-> trello_list_id,
                current_status |-> current_status,
                last_synced_status |-> Null,
                last_sync_source |-> "sheets"]
        ins == InsertRow(rows, row)
    IN  IF ins.ok
        THEN [ok |-> TRUE, record |-> GetMappingByLeadId(ins.rows, lead_id),
              rows |-> ins.rows]
        ELSE [ok |-> FALSE, record |-> {}, rows |-> rows]

\* Variant: the move is stamped with the lead side as its source
UpdateFromTrelloMoveAsSheets(rows, card_id, new_list_id, new_status) ==
    LET upd(r) == [r EXCEPT !.trello_list_id = new_list_id,
                            !.current_status = new_status,
                            !.last_sync_source = "sheets"]
        rows2  == {IF r.card_id = card_id THEN upd(r) ELSE r : r \in rows}
        record == GetRecordByCardId(rows2, card_id)
    IN  [ok |-> record # {}, record |-> record, rows |-> rows2]

\* SyncDatabase.update_from_trello_move: [ok, record, rows]
UpdateFromTrelloMove(rows, card_id, new_list_id, new_status) ==
    LET upd(r) == [r EXCEPT !.trello_list_id = new_list_id,
                            !.current_status = new_status,
                            !.last_sync_source = "trello"]
        rows2  == {IF r.card_id = card_id THEN upd(r) ELSE r : r \in rows}
    IN  IF \A r \in rows2 : NotNullOk(r)
        THEN LET record == GetRecordByCardId(rows2, card_id)
             IN  [ok |-> record # {}, record |-> record, rows |-> rows2]
        ELSE [ok |-> FALSE, record |-> {}, rows |-> rows]

\* SyncDatabase.add_mapping: INSERT OR REPLACE of the seven columns it names;
\* the others take their defaults (current_status 'New', the rest NULL).
AddMapping(rows, lead_id, lead_name, lead_email, card_id, card_title, trello_list_id, status) ==
    LET row == [lead_id |-> lead_id, lead_name |-> lead_name,
                lead_email |-> lead_email, lead_phone |-> Null,
                lead_company |-> Null,
                card_id |-> card_id, card_title |-> card_title,
                trello_list_id |-> trello_list_id,
                current_status |-> "New",
                last_synced_status |-> status,
                last_sync_source |-> Null]
    IN  InsertOrReplaceRow(rows, row)

\* SyncDatabase.delete_mapping(lead_id=...)
DeleteMapping(rows, lead_id) == {r \in rows : r.lead_id # lead_id}

\* ------------------------------------------------------------------ task board adapter
\* The board is a sequence of cards [id, name, desc, idList].  A remote call
\* takes a flag ok: whether the board answers it (FALSE is a failed request,
\* after the adapter's retries).

\* The lanes of the board: the four of the deployment and one more
ExtraList == "LZ"

BoardLists == {"LN", "LC", "LQ", "LX", ExtraList}

CardIdDigits == "123456789"

\* the id the board gives its n-th card
CardIdOf(n) == "c" \o CharAt(CardIdDigits, n)

First(S) == CHOOSE i \in S : \A j \in S : i <= j

\* str.split("\n"): the lines of a text
RECURSIVE SplitLines(_)
SplitLines(s) ==
    LET nl == {i \in 1..Len(s) : CharAt(s, i) = "\n"}
    IN  IF nl = {} THEN <<s>>
        ELSE <<SubSeq(s, 1, First(nl) - 1)>>
                 \o SplitLines(SubSeq(s, First(nl) + 1, Len(s)))

\* the text after the first occurrence of a one-character separator
AfterFirst(s, sep) ==
    SubSeq(s, First({i \in 1..Len(s) : CharAt(s, i) = sep}) + 1, Len(s))

BeforeFirst(s, sep) ==
    SubSeq(s, 1, First({i \in 1..Len(s) : CharAt(s, i) = sep}) - 1)

\* TaskClient.get_all_tasks, the lead id read from a card's description
ParseLeadId(desc) ==
    IF ~Truthy(desc) THEN Null
    ELSE IF Contains(desc, "Lead ID:")
         THEN LET lines == SplitLines(desc)
                  hit   == First({i \in 1..Len(lines) : Contains(lines[i], "Lead ID:")})
              IN  Strip(AfterFirst(lines[hit], ":"))
    ELSE IF Contains(desc, "|") THEN Strip(BeforeFirst(desc, "|"))
    ELSE Null

\* The fields of utils.models.Task made from one card
TaskOf(Config, card) ==
    [id      |-> card.id,
     title   |-> card.name,
     status  |-> GetStatusFromListId(Config, card.idList),
     lead_id |-> ParseLeadId(card.desc),
     notes   |-> card.desc,
     list_id |-> card.idList]

\* TaskClient.get_all_tasks: [] when the request fails (it never raises)
GetAllTasks(Config, cards, ok) ==
    IF ok THEN [i \in 1..Len(cards) |-> TaskOf(Config, cards[i])] ELSE <<>>

\* TaskClient.create_task_in_list: [card_id, cards]; the board refuses a lane
\* it does not have (list_id None or ""), and the adapter then returns None.
CreateTaskInList(cards, list_id, title, description, ok) ==
    IF ok /\ list_id \in BoardLists
    THEN LET card_id == CardIdOf(Len(cards) + 1)
         IN  [card_id |-> card_id,
              cards   |-> Append(cards, [id |-> card_id, name |-> title,
                                         desc |-> IF Truthy(description)
                                                  THEN description ELSE "",
                                         idList |-> list_id])]
    ELSE [card_id |-> Null, cards |-> cards]

\* TaskClient.update_task: [success, cards]; the PUT fails for a card the board
\* does not have and for an idList that is no lane of the board.
UpdateTask(Config, cards, task_id, status, title, notes, ok) ==
    LET m       == TRELLO_LIST_MAPPING(Config)
        list_id == DictGet(m, status, DictGet(m, "New", Null))
        data    == [idList |-> IF Truthy(status) THEN {list_id} ELSE {},
                    name   |-> IF Truthy(title) THEN {title} ELSE {},
                    desc   |-> IF Truthy(notes) THEN {notes} ELSE {}]
        put(c)  == [c EXCEPT !.idList = IF data.idList = {} THEN @ ELSE list_id,
                             !.name   = IF data.name = {} THEN @ ELSE title,
                             !.desc   = IF data.desc = {} THEN @ ELSE notes]
    IN  IF data.idList = {} /\ data.name = {} /\ data.desc = {}
        THEN [success |-> TRUE, cards |-> cards]
        ELSE IF ok /\ (\E i \in 1..Len(cards) : cards[i].id = task_id)
                   /\ (data.idList = {} \/ list_id \in BoardLists)
        THEN [success |-> TRUE,
              cards   |-> [i \in 1..Len(cards) |->
                             IF cards[i].id = task_id THEN put(cards[i]) ELSE cards[i]]]
        ELSE [success |-> FALSE, cards |-> cards]

\* ------------------------------------------------------------------ lead sheet adapter
\* The sheet is a sequence of records [id, name, email, phone, company, status]
\* below a header row that has a Status column.

\* LeadClient.get_all_leads with a client: the id is made from name and email
LeadOf(record) ==
    [id      |-> Truncate(record.name \o "_" \o record.email, IdLen),
     name    |-> record.name,
     email   |-> record.email,
     phone   |-> record.phone,
     company |-> record.company,
     status  |-> record.status]

\* LeadClient.get_all_leads without credentials: the demo data
DemoLeads ==
    << [id |-> "DEMO1", name |-> "Demo Lead 1", email |-> "demo1@example.com",
        phone |-> Null, company |-> Null, status |-> "NEW"],
       [id |-> "DEMO2", name |-> "Demo Lead 2", email |-> "demo2@example.com",
        phone |-> Null, company |-> Null, status |-> "CONTACTED"] >>

\* LeadClient.get_all_leads: [] when the request fails
GetAllLeads(sheet, client, ok) ==
    IF ~client THEN DemoLeads
    ELSE IF ok THEN [i \in 1..Len(sheet) |-> LeadOf(sheet[i])]
    ELSE <<>>

\* LeadClient.update_lead_status, the three ways one record can match
MatchById(record, lead_id) ==
    Strip(record.id) # "" /\ Strip(record.id) = Strip(lead_id)

MatchByNameEmailId(record, lead_id) ==
    /\ Truthy(record.name) /\ Truthy(record.email)
    /\ Strip(Truncate(record.name \o "_" \o record.email, IdLen))
           = Strip(Truncate(lead_id, IdLen))

MatchDirect(record, lead_name, lead_email) ==
    /\ Truthy(lead_name) /\ Truthy(lead_email)
    /\ Lower(Strip(record.name)) = Lower(Strip(lead_name))
    /\ Lower(Strip(record.email)) = Lower(Strip(lead_email))

\* LeadClient.update_lead_status: [success, sheet]; the records are tried in
\* sheet order, each by the three ways in turn, and the first hit is updated.
UpdateLeadStatus(sheet, client, lead_id, new_status, lead_name, lead_email, ok) ==
    LET hits == {i \in 1..Len(sheet) : \/ MatchById(sheet[i], lead_id)
                                        \/ MatchByNameEmailId(sheet[i], lead_id)
                                        \/ MatchDirect(sheet[i], lead_name, lead_email)}
    IN  IF client /\ ok /\ hits # {}
        THEN [success |-> TRUE,
              sheet   |-> [sheet EXCEPT ![First(hits)].status = new_status]]
        ELSE [success |-> FALSE, sheet |-> sheet]

\* ------------------------------------------------------------------ engine
\* A pass works on a world w = [rows, cards, sheet, stats, calls]: the table,
\* the board, the sheet, what the pass adds to the counters of self.stats (a
\* full scan resets them first, so there they are the counters themselves), and
\* the log of the remote requests the pass issued, each with its outcome.
\* rem = [list, create, move, sheets] says which remote requests of the pass
\* are answered.  The body of a handler's try block yields
\* [w, raised, ret]: raised is the exception that left it (Null if none) and
\* ret the set holding the value of an early return ({} if none).

ZeroStats ==
    [leads_checked |-> 0, cards_created |-> 0, statuses_updated |-> 0, errors |-> 0]

Ret(success, action, lead_id, error) ==
    [success |-> success, action |-> action, lead_id |-> lead_id, error |-> error,
     echo_skipped |-> FALSE, status_updated |-> FALSE]

Call(op, key, arg, ok) == [op |-> op, key |-> key, arg |-> arg, ok |-> ok]

Logged(w, call) == [w EXCEPT !.calls = Append(@, call)]

Falls(w) == [w |-> w, raised |-> Null, ret |-> {}]

Raises(w, e) == [w |-> w, raised |-> e, ret |-> {}]

Returns(w, ret) == [w |-> w, raised |-> Null, ret |-> {ret}]

\* f"{lead_name} ({lead_email})" if lead_email else lead_name
CardTitle(lead_name, lead_email) ==
    IF Truthy(lead_email) THEN lead_name \o " (" \o lead_email \o ")" ELSE lead_name

OrNA(s) == IF Truthy(s) THEN s ELSE "N/A"

\* RobustSyncEngine._format_card_description_for_new_card
FormatCardDescriptionForNewCard(lead_id, lead_name, lead_email, lead_phone, lead_company, status) ==
    "Lead ID: " \o lead_id \o "\nName: " \o lead_name
        \o "\nEmail: " \o OrNA(lead_email) \o "\nPhone: " \o OrNA(lead_phone)
        \o "\nCompany: " \o OrNA(lead_company) \o "\nStatus: " \o status
        \o "\nSource: Google Sheets"

\* RobustSyncEngine._format_card_description
FormatCardDescription(lead) ==
    "Lead ID: " \o lead.id \o "\nEmail: " \o OrNA(lead.email)
        \o "\nPhone: " \o OrNA(lead.phone) \o "\nCompany: " \o OrNA(lead.company)
        \o "\nStatus: " \o lead.status

\* The attribute of a Task the webhook pass reads for the card's description
CardDescAttr == "description"

\* sync_from_sheets_webhook, the search of the fetched cards for the lead id:
\* [raised, card]; reading an attribute Task does not have raises.
FindExistingCard(all_cards, lead_id) ==
    IF all_cards = <<>> THEN [raised |-> Null, card |-> {}]
    ELSE IF CardDescAttr \notin DOMAIN all_cards[1]
    THEN [raised |-> "AttributeError", card |-> {}]
    ELSE LET desc(c) == IF Truthy(c[CardDescAttr]) THEN c[CardDescAttr] ELSE ""
             hits    == {i \in 1..Len(all_cards) : Contains(desc(all_cards[i]), lead_id)}
         IN  [raised |-> Null,
              card   |-> IF hits = {} THEN {} ELSE {all_cards[First(hits)]}]

\* Variant: the row takes the lane of the sheet's status before the card is
\* moved
SheetsUpdatedLaneFirst(Config, w, d, lead_id, db_record, rem) ==
    LET card_id == Row(db_record).card_id
        lane == DictGet(TRELLO_LIST_MAPPING(Config), Title(Strip(d.status)),
                        Config.TRELLO_NEW_LIST_ID)
        up == UpdateFromTrelloMove(w.rows, card_id, lane, d.status)
        w0 == [w EXCEPT !.rows = up.rows]
        expected == MapStatusToListId(Config, d.status)
        mv == UpdateTask(Config, w0.cards, card_id, d.status,
                         CardTitle(d.lead_name, d.lead_email), Null, rem.move)
        w1 == Logged([w0 EXCEPT !.cards = mv.cards],
                     Call("update_task", card_id, d.status, mv.success))
    IN  IF Truthy(card_id) /\ ~StartsWith(card_id, Pending)
        THEN IF expected.raised # Null THEN Raises(w0, expected.raised)
             ELSE IF Row(db_record).trello_list_id # expected.value
             THEN IF mv.success
                  THEN Falls([w1 EXCEPT !.stats.statuses_updated = @ + 1])
                  ELSE Falls([w1 EXCEPT !.stats.errors = @ + 1])
             ELSE Falls(w)
        ELSE Falls(w)

\* sync_from_sheets_webhook, action == 'updated'
SheetsUpdated(Config, w, d, lead_id, db_record, rem) ==
    LET card_id == Row(db_record).card_id
    IN  IF Truthy(card_id) /\ ~StartsWith(card_id, Pending)
        THEN LET expected == MapStatusToListId(Config, d.status)
                 current_list_id == Row(db_record).trello_list_id
                 mv == UpdateTask(Config, w.cards, card_id, d.status,
                                  CardTitle(d.lead_name, d.lead_email), Null, rem.move)
                 w1 == Logged([w EXCEPT !.cards = mv.cards],
                              Call("update_task", card_id, d.status, mv.success))
                 up == UpdateFromTrelloMove(w1.rows, card_id, expected.value, d.status)
             IN  IF expected.raised # Null THEN Raises(w, expected.raised)
                 ELSE IF current_list_id # expected.value
                 THEN IF mv.success
                      THEN Falls([w1 EXCEPT !.rows = up.rows,
                                            !.stats.statuses_updated = @ + 1])
                      ELSE Falls([w1 EXCEPT !.stats.errors = @ + 1])
                 ELSE Falls(w)
        ELSE Falls(w)

\* sync_from_sheets_webhook, action == 'created', a card with the lead id found
SheetsAttach(Config, w, d, lead_id, existing_card, rem) ==
    LET cr == CreateRecordWithCard(w.rows, lead_id, d.lead_name, d.lead_email,
                                   d.lead_phone, d.lead_company, existing_card.id,
                                   existing_card.title, existing_card.list_id, d.status)
        w1 == Logged([w EXCEPT !.rows = cr.rows],
                     Call("found_card", lead_id, existing_card.id, cr.ok))
        expected == MapStatusToListId(Config, d.status)
        mv == UpdateTask(Config, w1.cards, existing_card.id, d.status,
                         CardTitle(d.lead_name, d.lead_email), Null, rem.move)
        w2 == Logged([w1 EXCEPT !.cards = mv.cards],
                     Call("update_task", existing_card.id, d.status, mv.success))
        up == UpdateFromTrelloMove(w2.rows, existing_card.id, expected.value, d.status)
    IN  IF expected.raised # Null THEN Raises(w1, expected.raised)
        ELSE IF existing_card.list_id # expected.value
        THEN IF mv.success
             THEN Falls([w2 EXCEPT !.rows = up.rows, !.stats.statuses_updated = @ + 1])
             ELSE Falls(w2)
        ELSE Falls(w1)

\* sync_from_sheets_webhook, action == 'created', no card found
SheetsCreate(Config, w, d, lead_id, rem) ==
    LET target == MapStatusToListId(Config, d.status)
        card_title == CardTitle(d.lead_name, d.lead_email)
        card_description ==
            FormatCardDescriptionForNewCard(lead_id, d.lead_name, d.lead_email,
                                            d.lead_phone, d.lead_company, d.status)
        ct == CreateTaskInList(w.cards, target.value, card_title, card_description,
                               rem.create)
        w1 == Logged([w EXCEPT !.cards = ct.cards],
                     Call("create_task_in_list", lead_id, target.value,
                          Truthy(ct.card_id)))
        cr == CreateRecordWithCard(w1.rows, lead_id, d.lead_name, d.lead_email,
                                   d.lead_phone, d.lead_company, ct.card_id,
                                   card_title, target.value, d.status)
    IN  IF target.raised # Null THEN Raises(w, target.raised)
        ELSE IF ~Truthy(target.value)
        THEN Returns([w EXCEPT !.stats.errors = @ + 1],
                     Ret(FALSE, "", "",
                         "Cannot map status " \o d.status \o " to Trello list"))
        ELSE IF Truthy(ct.card_id)
        THEN Falls([w1 EXCEPT !.rows = cr.rows, !.stats.cards_created = @ + 1])
        ELSE Falls([w1 EXCEPT !.stats.errors = @ + 1])

\* Variant: a pass that ends without a card for the new lead takes the lead's
\* row out again
SheetsCreatedUndoing(Config, w, d, lead_id, rem) ==
    LET all_cards == GetAllTasks(Config, w.cards, rem.list)
        w0        == Logged(w, Call("get_all_tasks", "", "", rem.list))
        found     == FindExistingCard(all_cards, lead_id)
        r == IF found.raised # Null THEN Raises(w0, found.raised)
             ELSE IF found.card # {}
             THEN SheetsAttach(Config, w0, d, lead_id, Row(found.card), rem)
             ELSE SheetsCreate(Config, w0, d, lead_id, rem)
        linked == \E x \in r.w.rows : x.lead_id = lead_id /\ ~StartsWith(x.card_id, Pending)
    IN  IF linked THEN r ELSE [r EXCEPT !.w.rows = DeleteMapping(@, lead_id)]

\* sync_from_sheets_webhook, action == 'created'
SheetsCreated(Config, w, d, lead_id, rem) ==
    LET all_cards == GetAllTasks(Config, w.cards, rem.list)
        w0        == Logged(w, Call("get_all_tasks", "", "", rem.list))
        found     == FindExistingCard(all_cards, lead_id)
    IN  IF found.raised # Null THEN Raises(w0, found.raised)
        ELSE IF found.card # {}
        THEN SheetsAttach(Config, w0, d, lead_id, Row(found.card), rem)
        ELSE SheetsCreate(Config, w0, d, lead_id, rem)

\* A handler's try/except: an exception is counted and reported as a failure
Handled(body, fallthrough) ==
    IF body.raised # Null
    THEN [w   |-> [body.w EXCEPT !.stats.errors = @ + 1],
          ret |-> Ret(FALSE, "", "", body.raised)]
    ELSE [w   |-> body.w,
          ret |-> IF body.ret # {} THEN Row(body.ret) ELSE fallthrough]

\* RobustSyncEngine.sync_from_sheets_webhook: [w, ret]
SyncFromSheetsWebhook(Config, w, d, rem) ==
    LET lead_id ==
            IF Truthy(d.lead_id) THEN d.lead_id
            ELSE Truncate(d.lead_name \o "_" \o d.lead_email, IdLen)
        up == UpsertRecordFromSheets(w.rows, lead_id, d.lead_name, d.lead_email,
                                     d.lead_phone, d.lead_company, d.status)
        w1 == [w EXCEPT !.rows = up.rows]
        body ==
            IF ~Truthy(d.lead_name)
            THEN Returns(w, Ret(FALSE, "", "", "Missing lead_name"))
            ELSE CASE up.action = "updated" ->
                          SheetsUpdated(Config, w1, d, lead_id, up.record, rem)
                   [] up.action = "created" ->
                          SheetsCreated(Config, w1, d, lead_id, rem)
                   [] OTHER ->
                          Returns([w1 EXCEPT !.stats.errors = @ + 1],
                                  Ret(FALSE, "", "", "Database upsert failed"))
    IN  Handled(body, Ret(TRUE, up.action, lead_id, ""))

\* sync_from_trello_webhook, the body of its try block
TrelloBody(Config, w, d, client, rem) ==
    LET db_record  == GetRecordByCardId(w.rows, d.card_id)
        new_status == MapListIdToStatus(Config, d.list_id)
        current_status == Row(db_record).current_status
        last_sync_source == Row(db_record).last_sync_source
        up == UpdateFromTrelloMove(w.rows, d.card_id, d.list_id, new_status.value)
        lead_id == Row(db_record).lead_id
        ls == UpdateLeadStatus(w.sheet, client, lead_id, new_status.value,
                               Null, Null, rem.sheets)
        w1 == [w EXCEPT !.rows = up.rows]
        w2 == Logged([w1 EXCEPT !.sheet = ls.sheet],
                     Call("update_lead_status", lead_id, new_status.value, ls.success))
        done(x) == Returns(x, [Ret(TRUE, "", "", "") EXCEPT !.status_updated = TRUE])
    IN  IF ~Truthy(d.card_id)
        THEN Returns(w, Ret(FALSE, "", "", "Missing card_id"))
        ELSE IF db_record = {}
        THEN Returns(w, Ret(FALSE, "", "", "Card not in database"))
        ELSE IF new_status.raised # Null THEN Raises(w, new_status.raised)
        ELSE IF current_status # new_status.value
        THEN IF last_sync_source = "sheets"
             THEN Returns(w, [Ret(TRUE, "", "", "") EXCEPT !.echo_skipped = TRUE])
             ELSE IF up.ok
                  THEN IF ls.success
                       THEN done([w2 EXCEPT !.stats.statuses_updated = @ + 1])
                       ELSE done([w2 EXCEPT !.stats.errors = @ + 1])
                  ELSE done([w1 EXCEPT !.stats.errors = @ + 1])
        ELSE Returns(w, Ret(TRUE, "", "", ""))

\* RobustSyncEngine.sync_from_trello_webhook: [w, ret]
SyncFromTrelloWebhook(Config, w, d, client, rem) ==
    Handled(TrelloBody(Config, w, d, client, rem), Ret(TRUE, "", "", ""))

\* _create_missing_cards, one lead of the loop (its own try/except)
CreateMissingCard(Config, w, lead, rem) ==
    LET w0 == [w EXCEPT !.stats.leads_checked = @ + 1]
        db_record == GetMappingByLeadId(w0.rows, lead.id)
        target == MapStatusToListId(Config, lead.status)
        card_title == CardTitle(lead.name, lead.email)
        ct == CreateTaskInList(w0.cards, target.value, card_title,
                               FormatCardDescription(lead), rem.create)
        w1 == Logged([w0 EXCEPT !.cards = ct.cards],
                     Call("create_task_in_list", lead.id, target.value,
                          Truthy(ct.card_id)))
        cr == CreateRecordWithCard(w1.rows, lead.id, lead.name, lead.email, lead.phone,
                                   lead.company, ct.card_id, card_title, target.value,
                                   lead.status)
    IN  IF db_record # {} /\ Truthy(Row(db_record).card_id) THEN w0
        ELSE IF target.raised # Null THEN [w0 EXCEPT !.stats.errors = @ + 1]
        ELSE IF Truthy(ct.card_id)
        THEN [w1 EXCEPT !.rows = cr.rows, !.stats.cards_created = @ + 1]
        ELSE [w1 EXCEPT !.stats.errors = @ + 1]

\* RobustSyncEngine._create_missing_cards, from the i-th lead on
RECURSIVE CreateMissingCards(_, _, _, _, _)
CreateMissingCards(Config, w, leads, i, rem) ==
    IF i > Len(leads) THEN w
    ELSE CreateMissingCards(Config, CreateMissingCard(Config, w, leads[i], rem),
                            leads, i + 1, rem)

\* _update_sheets_from_trello, one card of the loop (its own try/except)
UpdateSheetFromCard(Config, w, card, client, rem) ==
    LET db_record == GetRecordByCardId(w.rows, card.id)
        expected  == MapStatusToListId(Config, Row(db_record).current_status)
        new_status == MapListIdToStatus(Config, card.list_id)
        up == UpdateFromTrelloMove(w.rows, card.id, card.list_id, new_status.value)
        lead_id == Row(db_record).lead_id
        ls == UpdateLeadStatus(w.sheet, client, lead_id, new_status.value,
                               Null, Null, rem.sheets)
        w1 == Logged([w EXCEPT !.rows = up.rows, !.sheet = ls.sheet],
                     Call("update_lead_status", lead_id, new_status.value, ls.success))
    IN  IF db_record = {} THEN w
        ELSE IF expected.raised # Null THEN [w EXCEPT !.stats.errors = @ + 1]
        ELSE IF card.list_id # expected.value
        THEN IF new_status.raised # Null THEN [w EXCEPT !.stats.errors = @ + 1]
             ELSE IF ls.success THEN [w1 EXCEPT !.stats.statuses_updated = @ + 1]
             ELSE [w1 EXCEPT !.stats.errors = @ + 1]
        ELSE w

\* RobustSyncEngine._update_sheets_from_trello, from the i-th card on
RECURSIVE UpdateSheetsFromTrello(_, _, _, _, _, _)
UpdateSheetsFromTrello(Config, w, cards, i, client, rem) ==
    IF i > Len(cards) THEN w
    ELSE UpdateSheetsFromTrello(Config,
                                UpdateSheetFromCard(Config, w, cards[i], client, rem),
                                cards, i + 1, client, rem)

\* RobustSyncEngine.full_sync: the world after the scan
FullSync(Config, w, client, rem) ==
    LET leads == GetAllLeads(w.sheet, client, rem.sheets)
        cards == GetAllTasks(Config, w.cards, rem.list)
        w0    == Logged(Logged([w EXCEPT !.stats = ZeroStats],
                               Call("get_all_leads", "", "", rem.sheets)),
                        Call("get_all_tasks", "", "", rem.list))
        w1    == CreateMissingCards(Config, w0, leads, 1, rem)
    IN  UpdateSheetsFromTrello(Config, w1, cards, 1, client, rem)

\* ------------------------------------------------------------------ simple engine
\* SimpleSyncEngine works on a world that also holds table sync_history:
\* w = [rows, cards, sheet, stats, calls, history].

\* The Config attribute SimpleSyncEngine reads for the lane of each status
SimpleLaneAttr ==
    [New       |-> "TRELLO_NEW_LIST_ID",
     Contacted |-> "TRELLO_IN_PROGRESS_LIST_ID",
     Qualified |-> "TRELLO_QUALIFIED_LIST_ID",
     Closed    |-> "TRELLO_DONE_LIST_ID",
     Completed |-> "TRELLO_DONE_LIST_ID"]

\* SimpleSyncEngine._map_status_to_list_id: mapping.get(sheet_status), the
\* status as it is in the sheet.  [raised, value]
SimpleMapStatusToListId(Config, sheet_status) ==
    IF MissingAttrs(Config, SimpleLaneAttr) # {}
    THEN [raised |-> "AttributeError", value |-> Null]
    ELSE [raised |-> Null,
          value  |-> IF sheet_status \in DOMAIN SimpleLaneAttr
                     THEN Config[SimpleLaneAttr[sheet_status]]
                     ELSE Null]

\* SimpleSyncEngine._map_list_id_to_status: [raised, value]
SimpleMapListIdToStatus(Config, list_id) ==
    IF MissingAttrs(Config, SimpleLaneAttr) # {}
    THEN [raised |-> "AttributeError", value |-> Null]
    ELSE [raised |-> Null, value |-> ReverseLookup(Config, SimpleLaneAttr, list_id)]

\* SyncDatabase.get_mapping_by_card_id
GetMappingByCardId(rows, card_id) == FetchOne({r \in rows : r.card_id = card_id})

\* SyncDatabase.add_sync_history: a plain INSERT into sync_history
AddSyncHistory(history, action, lead_id, card_id, old_status, new_status, source, success, error_message) ==
    Append(history, [action |-> action, lead_id |-> lead_id, card_id |-> card_id,
                     old_status |-> old_status, new_status |-> new_status,
                     source |-> source, success |-> success,
                     error_message |-> error_message])

\* _sync_sheets_to_trello, one lead of the loop (its own try/except); cards is
\* the list of tasks fetched when the pass began
SimpleSyncLead(Config, w, lead, cards, rem) ==
    LET w0       == [w EXCEPT !.stats.leads_checked = @ + 1]
        failed   == [w0 EXCEPT !.stats.errors = @ + 1]
        mapping  == GetMappingByLeadId(w0.rows, lead.id)
        card_id  == IF mapping = {} THEN Null ELSE Row(mapping).card_id
        hits     == {i \in 1..Len(cards) : cards[i].id = card_id}
        card     == cards[First(hits)]
        expected == SimpleMapStatusToListId(Config, lead.status)
        title    == CardTitle(lead.name, lead.email)
        new_status == SimpleMapListIdToStatus(Config, expected.value)
        ut == UpdateTask(Config, w0.cards, card_id, new_status.value, title,
                         FormatCardDescription(lead), rem.move)
        w1 == Logged([w0 EXCEPT !.cards = ut.cards],
                     Call("update_task", card_id, new_status.value, ut.success))
        ct == CreateTaskInList(w0.cards, expected.value, title,
                               FormatCardDescription(lead), rem.create)
        w2 == Logged([w0 EXCEPT !.cards = ct.cards],
                     Call("create_task_in_list", lead.id, expected.value,
                          Truthy(ct.card_id)))
        am == AddMapping(w2.rows, lead.id, lead.name, lead.email, ct.card_id, title,
                         expected.value, lead.status)
    IN  IF expected.raised # Null THEN failed
        ELSE IF Truthy(card_id) /\ hits # {}
        THEN IF card.list_id # expected.value
             THEN IF ut.success
                  THEN [w1 EXCEPT !.stats.statuses_updated = @ + 1,
                                  !.history = AddSyncHistory(@, "update_status", lead.id,
                                                  card_id, card.status, new_status.value,
                                                  "sheets", TRUE, Null)]
                  ELSE w1
             ELSE w0
        ELSE IF ~Truthy(expected.value) THEN failed
        ELSE IF Truthy(ct.card_id)
        THEN [w2 EXCEPT !.rows = am.rows,
                        !.history = AddSyncHistory(@, "create", lead.id, ct.card_id, Null,
                                                   lead.status, "sheets", TRUE, Null),
                        !.stats.cards_created = @ + 1]
        ELSE [w2 EXCEPT !.stats.errors = @ + 1,
                        !.history = AddSyncHistory(@, "create", lead.id, Null, Null,
                                                   lead.status, "sheets", FALSE,
                                                   "Failed to create card")]

\* SimpleSyncEngine._sync_sheets_to_trello, from the i-th lead on
RECURSIVE SyncSheetsToTrello(_, _, _, _, _, _)
SyncSheetsToTrello(Config, w, leads, cards, i, rem) ==
    IF i > Len(leads) THEN w
    ELSE SyncSheetsToTrello(Config, SimpleSyncLead(Config, w, leads[i], cards, rem),
                            leads, cards, i + 1, rem)

\* _sync_trello_to_sheets, one card of the loop (its own try/except); leads and
\* card are those fetched when the pass began
SimpleSyncCard(Config, w, card, leads, client, rem) ==
    LET mapping  == GetMappingByCardId(w.rows, card.id)
        lead_id  == Row(mapping).lead_id
        hits     == {i \in 1..Len(leads) : leads[i].id = lead_id}
        lead     == leads[First(hits)]
        expected == SimpleMapStatusToListId(Config, lead.status)
        new_status == SimpleMapListIdToStatus(Config, card.list_id)
        ls == UpdateLeadStatus(w.sheet, client, lead.id, new_status.value, Null, Null,
                               rem.sheets)
        w1 == Logged([w EXCEPT !.sheet = ls.sheet],
                     Call("update_lead_status", lead.id, new_status.value, ls.success))
    IN  IF mapping = {} THEN w
        ELSE IF hits = {} THEN w
        ELSE IF expected.raised # Null THEN [w EXCEPT !.stats.errors = @ + 1]
        ELSE IF card.list_id # expected.value
        THEN IF ls.success
             THEN [w1 EXCEPT !.stats.statuses_updated = @ + 1,
                             !.history = AddSyncHistory(@, "update_status", lead_id,
                                             card.id, lead.status, new_status.value,
                                             "trello", TRUE, Null)]
             ELSE [w1 EXCEPT !.stats.errors = @ + 1]
        ELSE w

\* SimpleSyncEngine._sync_trello_to_sheets, from the i-th card on
RECURSIVE SyncTrelloToSheets(_, _, _, _, _, _, _)
SyncTrelloToSheets(Config, w, leads, cards, i, client, rem) ==
    IF i > Len(cards) THEN w
    ELSE SyncTrelloToSheets(Config,
                            SimpleSyncCard(Config, w, cards[i], leads, client, rem),
                            leads, cards, i + 1, client, rem)

\* SimpleSyncEngine.sync: both lists are fetched once, before the two phases
SimpleSync(Config, w, client, rem) ==
    LET leads == GetAllLeads(w.sheet, client, rem.sheets)
        cards == GetAllTasks(Config, w.cards, rem.list)
        w0    == Logged(Logged([w EXCEPT !.stats = ZeroStats],
                               Call("get_all_leads", "", "", rem.sheets)),
                        Call("get_all_tasks", "", "", rem.list))
        w1    == SyncSheetsToTrello(Config, w0, leads, cards, 1, rem)
    IN  SyncTrelloToSheets(Config, w1, leads, cards, 1, client, rem)

\* ------------------------------------------------------------------ HTTP endpoint

\* main.webhook_trello on a payload p = [action_type, card_id, list_after], where
\* list_after is the set holding the action's listAfter [id, name] ({} if absent):
\* [w, status]
WebhookTrello(w, p, client, rem) ==
    LET new_list_id     == Row(p.list_after).id
        new_status_name == Row(p.list_after).name
        status_mapping  == [s \in Statuses |-> s]
        new_status == DictGet(status_mapping, new_status_name, new_status_name)
        up == UpdateFromTrelloMove(w.rows, p.card_id, new_list_id, new_status)
        rec == Row(up.record)
        ls == UpdateLeadStatus(w.sheet, client, rec.lead_id, new_status,
                               rec.lead_name, rec.lead_email, rem.sheets)
        w1 == [w EXCEPT !.rows = up.rows]
        w2 == Logged([w1 EXCEPT !.sheet = ls.sheet],
                     Call("update_lead_status", rec.lead_id, new_status, ls.success))
    IN  IF p.action_type = "createCard" THEN [w |-> w, status |-> "ignored"]
        ELSE IF p.action_type # "updateCard" THEN [w |-> w, status |-> "ignored"]
        ELSE IF p.list_after = {} THEN [w |-> w, status |-> "ignored"]
        ELSE IF ~Truthy(p.card_id) \/ ~Truthy(new_list_id) \/ ~Truthy(new_status_name)
        THEN [w |-> w, status |-> "error"]
        ELSE IF up.ok
        THEN IF Truthy(rec.lead_id)
             THEN [w |-> w2, status |-> "success"]
             ELSE [w |-> w1, status |-> "success"]
        ELSE [w |-> w1, status |-> "warning"]

\* ------------------------------------------------------------------ state

VARIABLES
    Config,     \* the lane attributes of class Config in this deployment
    rows,       \* table lead_card_mapping
    cards,      \* the cards of the Trello board
    sheet,      \* the records of the Google sheet
    carded,     \* history: the leads for which the engine created or found a card
    flight,     \* what a pass that runs beside the others holds between its steps
    sync_history, \* table sync_history, oldest row first
    last        \* history: the last operation, its input, outcome and remote requests

vars == <<Config, rows, cards, sheet, carded, flight, sync_history, last>>

\* the bound on the cards of the board
MaxCards == 2

FullConfig == ConfigOf("LN", "LC", "LQ", "LX")

NoLead == [lead_id |-> "", lead_name |-> "", lead_email |-> "", lead_phone |-> "",
           lead_company |-> "", status |-> ""]

NoCard == [card_id |-> "", card_name |-> "", list_id |-> "", action_type |-> ""]

AllOk == [list |-> TRUE, create |-> TRUE, move |-> TRUE, sheets |-> TRUE]

\* the lead of the deployments that have one already
AnnId == "Ann_a@x.io"

AnnCard == [id |-> "c1", name |-> "Ann (a@x.io)",
            desc |-> "Lead ID: Ann_a@x.io\nEmail: a@x.io\nPhone: N/A\nCompany: N/A\nStatus: New",
            idList |-> "LN"]

AnnRecord == [id |-> "", name |-> "Ann", email |-> "a@x.io", phone |-> "",
              company |-> "", status |-> "New"]

\* A table written by an earlier run: SyncDatabase opens the file it finds
\* (CREATE TABLE IF NOT EXISTS, then the column migration), and the rows in it
\* are those add_mapping wrote for the cards created then.
LegacyRows ==
    AddMapping({}, AnnId, "Ann", "a@x.io", "c1", "Ann (a@x.io)", "LN", "New").rows

\* The deployments a run starts in: [rows, cards, sheet]
Deployments ==
    { [rows |-> {}, cards |-> <<>>, sheet |-> <<AnnRecord>>],
      [rows |-> {}, cards |-> <<AnnCard>>, sheet |-> <<AnnRecord>>],
      [rows |-> LegacyRows, cards |-> <<AnnCard>>, sheet |-> <<AnnRecord>>] }

\* the credentials file of the sheet exists (LeadClient.client is set)
SheetsClient == TRUE

\* again: the operation and its input are those of the operation before it
Last(op, lead, card, ret, w) ==
    [op |-> op, lead |-> lead, card |-> card, ret |-> ret,
     calls |-> w.calls, stats |-> w.stats,
     again |-> last.op = op /\ last.lead = lead /\ last.card = card]

Init ==
    /\ Config = FullConfig
    /\ \E dep \in Deployments :
          /\ rows = dep.rows
          /\ cards = dep.cards
          /\ sheet = dep.sheet
          /\ carded = {r.lead_id : r \in dep.rows}
    /\ flight = {}
    /\ sync_history = <<>>
    /\ last = [op |-> "init", lead |-> NoLead, card |-> NoCard,
               ret |-> Ret(TRUE, "", "", ""), calls |-> <<>>, stats |-> ZeroStats,
               again |-> FALSE]

World == [rows |-> rows, cards |-> cards, sheet |-> sheet, stats |-> ZeroStats,
          calls |-> <<>>]

\* the leads for which a pass created a card, or found one on the board and
\* recorded it
CardedBy(calls) ==
    {calls[i].key : i \in {j \in 1..Len(calls) :
        /\ calls[j].op \in {"create_task_in_list", "found_card"}
        /\ calls[j].ok}}

Becomes(w) ==
    /\ Len(w.cards) <= MaxCards
    /\ rows' = w.rows
    /\ cards' = w.cards
    /\ sheet' = w.sheet
    /\ carded' = carded \cup CardedBy(w.calls)
    /\ UNCHANGED Config

\* ------------------------------------------------------------------ inputs

LeadStatusInputs == {"New", "contacted", "Lost"}

LeadData(n, e, s) ==
    [lead_id |-> "", lead_name |-> n, lead_email |-> e, lead_phone |-> "",
     lead_company |-> "", status |-> s]

\* lead_data as main.webhook_sheets hands it over: a complete lead in each
\* status, one without email and one without name
LeadEvents ==
    {LeadData("Ann", "a@x.io", s) : s \in LeadStatusInputs}
        \cup {LeadData("Ann", "", "New"), LeadData("", "a@x.io", "New")}

CardData(c, l, a) == [card_id |-> c, card_name |-> "", list_id |-> l, action_type |-> a]

\* card_data of a task-side event: moves of a managed and of an unknown card,
\* a card creation, and an event without card id
CardEvents ==
    {CardData(c, l, "updateCard") : c \in {"c1", "c2"}, l \in {"LN", "LC", ExtraList}}
        \cup {CardData("c1", "LC", "createCard"), CardData("", "LC", "updateCard")}

\* the payloads of the Trello webhook endpoint
TrelloPayloads ==
    { [action_type |-> "updateCard", card_id |-> c, list_after |-> la] :
         c \in {"c1", "c2"},
         la \in { {}, {[id |-> "LC", name |-> "Contacted"]},
                  {[id |-> ExtraList, name |-> "On Hold"]} } }
        \cup { [action_type |-> "createCard", card_id |-> "c1",
                list_after |-> {[id |-> "LC", name |-> "Contacted"]}] }

\* which remote requests of a pass are answered: all, or all but one kind
RemoteAnswers == {AllOk} \cup {[AllOk EXCEPT ![k] = FALSE] : k \in DOMAIN AllOk}

LeadIdOf(d) ==
    IF Truthy(d.lead_id) THEN d.lead_id
    ELSE Truncate(d.lead_name \o "_" \o d.lead_email, IdLen)

\* ------------------------------------------------------------------ actions

\* a lead-side event handled by RobustSyncEngine.sync_from_sheets_webhook
SheetsWebhook(d, rem) ==
    LET r == SyncFromSheetsWebhook(Config, World, d, rem)
    IN  /\ Becomes(r.w)
        /\ last' = Last("sheets", d, NoCard, r.ret, r.w)
        /\ UNCHANGED <<flight, sync_history>>

\* a task-side event handled by RobustSyncEngine.sync_from_trello_webhook
TrelloWebhook(d, rem) ==
    LET r == SyncFromTrelloWebhook(Config, World, d, SheetsClient, rem)
    IN  /\ Becomes(r.w)
        /\ last' = Last("trello", NoLead, d, r.ret, r.w)
        /\ UNCHANGED <<flight, sync_history>>

\* RobustSyncEngine.full_sync
FullScan(rem) ==
    LET w == FullSync(Config, World, SheetsClient, rem)
    IN  /\ Becomes(w)
        /\ last' = Last("full", NoLead, NoCard, Ret(TRUE, "", "", ""), w)
        /\ UNCHANGED <<flight, sync_history>>

\* a Trello action delivered to main.webhook_trello
TrelloEndpoint(p, rem) ==
    LET r == WebhookTrello(World, p, SheetsClient, rem)
    IN  /\ Becomes(r.w)
        /\ last' = Last("endpoint", NoLead,
                        CardData(p.card_id,
                                 IF p.list_after = {} THEN "" ELSE Row(p.list_after).id,
                                 p.action_type),
                        Ret(r.status \in {"success", "ignored"}, r.status, "", ""), r.w)
        /\ UNCHANGED <<flight, sync_history>>

\* a user of the board drags a card to another lane
UserMovesCard(i, lane) ==
    /\ i \in 1..Len(cards)
    /\ cards[i].idList # lane
    /\ cards' = [cards EXCEPT ![i].idList = lane]
    /\ last' = Last("user", NoLead, CardData(cards[i].id, lane, "updateCard"),
                    Ret(TRUE, "", "", ""), [calls |-> <<>>, stats |-> ZeroStats])
    /\ UNCHANGED <<Config, rows, sheet, carded, flight, sync_history>>

Next ==
    \/ \E d \in LeadEvents, rem \in RemoteAnswers : SheetsWebhook(d, rem)
    \/ \E d \in CardEvents, rem \in RemoteAnswers : TrelloWebhook(d, rem)
    \/ \E rem \in RemoteAnswers : FullScan(rem)
    \/ \E p \in TrelloPayloads, rem \in RemoteAnswers : TrelloEndpoint(p, rem)
    \/ \E i \in 1..MaxCards, lane \in {"LN", "LC", ExtraList} : UserMovesCard(i, lane)

Spec == Init /\ [][Next]_vars

\* ------------------------------------------------------------------ the store alone
\* The four writing operations of SyncDatabase and the read by card id, called
\* in any order on a table that starts empty.

StoreLeads == {"L1", "L2"}

StoreCards == {"c1", "c2"}

StoreStatuses == {"New", "Contacted"}

InitStore ==
    /\ Config = FullConfig
    /\ rows = {}
    /\ cards = <<>>
    /\ sheet = <<>>
    /\ carded = {}
    /\ flight = {}
    /\ sync_history = <<>>
    /\ last = [op |-> "init", lead |-> NoLead, card |-> NoCard,
               ret |-> Ret(TRUE, "", "", ""), calls |-> <<>>, stats |-> ZeroStats,
               again |-> FALSE]

StoreStep(op, lead_id, card_id, ok, rows2) ==
    /\ rows' = rows2
    /\ last' = Last(op, [NoLead EXCEPT !.lead_id = lead_id],
                    [NoCard EXCEPT !.card_id = card_id], Ret(ok, op, lead_id, ""),
                    [calls |-> <<>>, stats |-> ZeroStats])
    /\ UNCHANGED <<Config, cards, sheet, carded, sync_history>>

\* the upserts made: <<lead_id, lead_name, current_status>>
StoreUpserts ==
    {<<"L1", "Ann", "New">>, <<"L1", "Bea", "Contacted">>, <<"L2", "Ann", "New">>,
     <<"L2", "Ann", "Contacted">>}

\* last.ret.action is the action upsert_record_from_sheets returned
StoreUpsert(lead_id, lead_name, status) ==
    LET r == UpsertRecordFromSheets(rows, lead_id, lead_name, "a@x.io", "", "", status)
        d == [LeadData(lead_name, "a@x.io", status) EXCEPT !.lead_id = lead_id]
    IN  /\ rows' = r.rows
        /\ last' = Last("upsert_record_from_sheets", d, NoCard,
                        Ret(r.ok, r.action, lead_id, ""),
                        [calls |-> <<>>, stats |-> ZeroStats])
        /\ UNCHANGED <<Config, cards, sheet, carded, flight, sync_history>>

StoreCreateRecordWithCard(lead_id, card_id) ==
    LET r == CreateRecordWithCard(rows, lead_id, "Ann", "a@x.io", "", "", card_id,
                                  "Ann (a@x.io)", "LN", "New")
    IN  /\ StoreStep("create_record_with_card", lead_id, card_id, r.ok, r.rows)
        /\ UNCHANGED <<flight, sync_history>>

StoreAddMapping(lead_id, card_id) ==
    LET r == AddMapping(rows, lead_id, "Ann", "a@x.io", card_id, "Ann (a@x.io)",
                        "LN", "New")
    IN  /\ StoreStep("add_mapping", lead_id, card_id, r.ok, r.rows)
        /\ UNCHANGED <<flight, sync_history>>

StoreUpdateFromTrelloMove(card_id, status) ==
    LET r == UpdateFromTrelloMove(rows, card_id, "LC", status)
    IN  /\ StoreStep("update_from_trello_move", "", card_id, r.ok, r.rows)
        /\ flight' = {}

\* get_record_by_card_id by a caller that keeps the row it read for the write
\* it makes next
StoreGetRecordByCardId(card_id) ==
    LET db_record == GetRecordByCardId(rows, card_id)
    IN  /\ StoreStep("get_record_by_card_id", "", card_id, db_record # {}, rows)
        /\ flight' = db_record

NextStore ==
    \/ \E c \in StoreCards : StoreGetRecordByCardId(c)
    \/ \E u \in StoreUpserts : StoreUpsert(u[1], u[2], u[3])
    \/ \E l \in StoreLeads, c \in StoreCards : StoreCreateRecordWithCard(l, c)
    \/ \E l \in StoreLeads, c \in StoreCards : StoreAddMapping(l, c)
    \/ \E c \in StoreCards, st \in StoreStatuses : StoreUpdateFromTrelloMove(c, st)

SpecStore == InitStore /\ [][NextStore]_vars

\* ------------------------------------------------------------------ the functions alone
\* The lane mappers of the engine and of the task adapter and the lead adapter's
\* update_lead_status, applied to arguments drawn from small sets, in a
\* deployment whose lanes are set or not and whose sheet is one of a few.

\* each lane of the deployment is set or left empty
Configs ==
    {ConfigOf(n, c, q, x) : n \in {"LN", ""}, c \in {"LC", ""},
                            q \in {"LQ", ""}, x \in {"LX", ""}}

SheetRecord(id, name, email) ==
    [id |-> id, name |-> name, email |-> email, phone |-> "", company |-> "",
     status |-> "New"]

\* sheets of one or two records, with and without an id column value
Sheets ==
    { <<SheetRecord("", "Ann", "a@x.io")>>,
      <<SheetRecord("", "Ann", "a@x.io"), SheetRecord("Ann_a@x.io", "Bob", "b@x.io")>>,
      <<SheetRecord("Ann_a@x.io", "Bob", "b@x.io"), SheetRecord("", "Ann", "a@x.io")>>,
      <<SheetRecord("8", "Ann", "a@x.io"), SheetRecord("7", "Bob", "b@x.io")>>,
      <<SheetRecord("7", "Bob", "b@x.io"), SheetRecord("8", "Ann", "a@x.io")>> }

StatusArgs == Statuses \cup {"contacted", "Lost", ""}

ListArgs == {"LN", "LC", "LQ", "LX", ExtraList}

InitFunctions ==
    /\ Config \in Configs
    /\ rows = {}
    /\ cards = <<>>
    /\ sheet \in Sheets
    /\ carded = {}
    /\ flight = {}
    /\ sync_history = <<>>
    /\ last = [op |-> "init", lead |-> NoLead, card |-> NoCard,
               ret |-> Ret(TRUE, "", "", ""), calls |-> <<>>, stats |-> ZeroStats,
               again |-> FALSE]

\* the result of a function: ret.action is the value returned, ret.error the
\* exception raised ("" if none)
Applied(op, lead, card, success, value, error) ==
    /\ last' = Last(op, lead, card, Ret(success, value, "", error),
                    [calls |-> <<>>, stats |-> ZeroStats])
    /\ UNCHANGED <<Config, rows, cards, carded, flight, sync_history>>

ApplyMapStatusToListId(s) ==
    LET r == MapStatusToListId(Config, s)
    IN  /\ Applied("_map_status_to_list_id", [NoLead EXCEPT !.status = s], NoCard,
                   r.raised = Null, r.value, IF r.raised = Null THEN "" ELSE r.raised)
        /\ UNCHANGED sheet

ApplyMapListIdToStatus(l) ==
    LET r == MapListIdToStatus(Config, l)
    IN  /\ Applied("_map_list_id_to_status", NoLead, [NoCard EXCEPT !.list_id = l],
                   r.raised = Null, r.value, IF r.raised = Null THEN "" ELSE r.raised)
        /\ UNCHANGED sheet

ApplyGetStatusFromListId(l) ==
    /\ Applied("_get_status_from_list_id", NoLead, [NoCard EXCEPT !.list_id = l],
               TRUE, GetStatusFromListId(Config, l), "")
    /\ UNCHANGED sheet

ApplyUpdateLeadStatus(lead_id, new_status, lead_name, lead_email, ok) ==
    LET r == UpdateLeadStatus(sheet, SheetsClient, lead_id, new_status, lead_name,
                              lead_email, ok)
    IN  /\ Applied("update_lead_status",
                   [NoLead EXCEPT !.lead_id = lead_id, !.lead_name = lead_name,
                                  !.lead_email = lead_email, !.status = new_status],
                   NoCard, r.success, "", IF ok THEN "" ELSE "request failed")
        /\ sheet' = r.sheet

NextFunctions ==
    \/ \E s \in StatusArgs : ApplyMapStatusToListId(s)
    \/ \E l \in ListArgs : ApplyMapListIdToStatus(l)
    \/ \E l \in ListArgs : ApplyGetStatusFromListId(l)
    \/ \E id \in {"Ann_a@x.io", "7"}, ne \in {<<Null, Null>>, <<"Ann", "a@x.io">>},
          ok \in BOOLEAN :
          ApplyUpdateLeadStatus(id, "Contacted", ne[1], ne[2], ok)

SpecFunctions == InitFunctions /\ [][NextFunctions]_vars

\* ------------------------------------------------------------------ a scan beside the server
\* full_sync runs in a process of its own (run_sync, python sync_robust.py)
\* on the table, board and sheet the server's handlers work on.  Nothing locks
\* them, so the handlers run between any two accesses of the scan; each step
\* below is one access with what the scan computes after it.  flight holds the
\* scan's locals: where it stands (pc, i), the leads and cards it fetched, the
\* values it carries to its next access (hold), its counters and requests, and
\* beside, the leads whose events the server handled meanwhile (history).

ScanStart ==
    [pc |-> "leads", leads |-> <<>>, tasks |-> <<>>, i |-> 1, hold |-> <<>>,
     beside |-> {}, stats |-> ZeroStats, calls |-> <<>>]

\* the scan at the i-th item of a loop: past the leads come the cards, past the
\* cards the end
ScanAt(f, pc, i) ==
    LET over == pc = "lead" /\ i > Len(f.leads)
        pc1  == IF over THEN "card" ELSE pc
        i1   == IF over THEN 1 ELSE i
    IN  [f EXCEPT !.pc = IF pc1 = "card" /\ i1 > Len(f.tasks) THEN "done" ELSE pc1,
                  !.i = i1, !.hold = <<>>]

\* Variant: a failure on one lead or card ends the scan
ScanFailedAborting(w, f, pc) ==
    [w |-> [w EXCEPT !.stats.errors = @ + 1], f |-> [f EXCEPT !.pc = "done"]]

\* the except clause of the loops over the leads and over the cards: the
\* failure is counted and the loop goes on to its next item
ScanFailed(w, f, pc) ==
    [w |-> [w EXCEPT !.stats.errors = @ + 1], f |-> ScanAt(f, pc, f.i + 1)]

\* full_sync, _create_missing_cards and _update_sheets_from_trello, one access
\* at a time: [w, f]
ScanNext(w, f, client, rem) ==
    LET lead == f.leads[f.i]
        card == f.tasks[f.i]
    IN  CASE f.pc = "leads" ->
                 [w |-> Logged(w, Call("get_all_leads", "", "", rem.sheets)),
                  f |-> [f EXCEPT !.leads = GetAllLeads(w.sheet, client, rem.sheets),
                                  !.pc = "tasks"]]
          [] f.pc = "tasks" ->
                 [w |-> Logged(w, Call("get_all_tasks", "", "", rem.list)),
                  f |-> ScanAt([f EXCEPT !.tasks = GetAllTasks(Config, w.cards, rem.list)],
                               "lead", 1)]
          [] f.pc = "lead" ->
                 LET w0 == [w EXCEPT !.stats.leads_checked = @ + 1]
                     db_record == GetMappingByLeadId(w.rows, lead.id)
                     target == MapStatusToListId(Config, lead.status)
                 IN  IF db_record # {} /\ Truthy(Row(db_record).card_id)
                     THEN [w |-> w0, f |-> ScanAt(f, "lead", f.i + 1)]
                     ELSE IF target.raised # Null
                     THEN ScanFailed(w0, f, "lead")
                     ELSE [w |-> w0,
                           f |-> [f EXCEPT !.pc = "create", !.hold = <<target.value>>]]
          [] f.pc = "create" ->
                 LET ct == CreateTaskInList(w.cards, f.hold[1],
                                            CardTitle(lead.name, lead.email),
                                            FormatCardDescription(lead), rem.create)
                     w1 == Logged([w EXCEPT !.cards = ct.cards],
                                  Call("create_task_in_list", lead.id, f.hold[1],
                                       Truthy(ct.card_id)))
                 IN  IF Truthy(ct.card_id)
                     THEN [w |-> w1,
                           f |-> [f EXCEPT !.pc = "record",
                                           !.hold = <<f.hold[1], ct.card_id>>]]
                     ELSE [w |-> [w1 EXCEPT !.stats.errors = @ + 1],
                           f |-> ScanAt(f, "lead", f.i + 1)]
          [] f.pc = "record" ->
                 LET cr == CreateRecordWithCard(w.rows, lead.id, lead.name, lead.email,
                                                lead.phone, lead.company, f.hold[2],
                                                CardTitle(lead.name, lead.email),
                                                f.hold[1], lead.status)
                 IN  [w |-> [w EXCEPT !.rows = cr.rows, !.stats.cards_created = @ + 1],
                      f |-> ScanAt(f, "lead", f.i + 1)]
          [] f.pc = "card" ->
                 LET db_record == GetRecordByCardId(w.rows, card.id)
                     expected == MapStatusToListId(Config, Row(db_record).current_status)
                     new_status == MapListIdToStatus(Config, card.list_id)
                 IN  IF db_record = {}
                     THEN [w |-> w, f |-> ScanAt(f, "card", f.i + 1)]
                     ELSE IF expected.raised # Null
                     THEN ScanFailed(w, f, "card")
                     ELSE IF card.list_id = expected.value
                     THEN [w |-> w, f |-> ScanAt(f, "card", f.i + 1)]
                     ELSE IF new_status.raised # Null
                     THEN ScanFailed(w, f, "card")
                     ELSE [w |-> w,
                           f |-> [f EXCEPT !.pc = "move",
                                           !.hold = <<new_status.value,
                                                      Row(db_record).lead_id>>]]
          [] f.pc = "move" ->
                 [w |-> [w EXCEPT !.rows = UpdateFromTrelloMove(@, card.id, card.list_id,
                                                                f.hold[1]).rows],
                  f |-> [f EXCEPT !.pc = "sheet"]]
          [] f.pc = "sheet" ->
                 LET ls == UpdateLeadStatus(w.sheet, client, f.hold[2], f.hold[1],
                                            Null, Null, rem.sheets)
                     w1 == Logged([w EXCEPT !.sheet = ls.sheet],
                                  Call("update_lead_status", f.hold[2], f.hold[1],
                                       ls.success))
                 IN  [w |-> IF ls.success
                            THEN [w1 EXCEPT !.stats.statuses_updated = @ + 1]
                            ELSE [w1 EXCEPT !.stats.errors = @ + 1],
                      f |-> ScanAt(f, "card", f.i + 1)]

\* python sync_robust.py is started while no scan is running
ScanBegins ==
    /\ flight = {}
    /\ flight' = {ScanStart}
    /\ UNCHANGED <<Config, rows, cards, sheet, carded, sync_history, last>>

\* the running scan makes its next access
ScanStep(rem) ==
    /\ flight # {}
    /\ LET f == Row(flight)
           r == ScanNext([World EXCEPT !.stats = f.stats, !.calls = f.calls], f,
                         SheetsClient, rem)
       IN  /\ Len(r.w.cards) <= MaxCards
           /\ rows' = r.w.rows
           /\ cards' = r.w.cards
           /\ sheet' = r.w.sheet
           /\ carded' = carded \cup CardedBy(r.w.calls)
           /\ IF r.f.pc = "done"
              THEN /\ flight' = {}
                   /\ last' = Last("full", NoLead, NoCard, Ret(TRUE, "", "", ""), r.w)
              ELSE /\ flight' = {[r.f EXCEPT !.stats = r.w.stats, !.calls = r.w.calls]}
                   /\ UNCHANGED last
    /\ UNCHANGED <<Config, sync_history>>

\* the server handles a lead-side event, whether a scan is running or not
LeadEventBesideScan(d, rem) ==
    LET r == SyncFromSheetsWebhook(Config, World, d, rem)
    IN  /\ Becomes(r.w)
        /\ last' = Last("sheets", d, NoCard, r.ret, r.w)
        /\ flight' = {[f EXCEPT !.beside = @ \cup {LeadIdOf(d)}] : f \in flight}
        /\ UNCHANGED sync_history

NextScan ==
    \/ ScanBegins
    \/ \E rem \in RemoteAnswers : ScanStep(rem)
    \/ \E d \in LeadEvents, rem \in RemoteAnswers : LeadEventBesideScan(d, rem)

\* a deployment whose environment does not set TRELLO_CONTACTED_LIST_ID
\* (os.getenv gives ""), and whose sheet lists a lead in that status
OmittedLaneConfig == ConfigOf("LN", "", "LQ", "LX")

\* the deployments of Init, one whose sheet lists a lead that has no row before
\* the lead whose card is on the board, and one with a lane that is not set
InitScan ==
    \/ Init
    \/ /\ Config = OmittedLaneConfig
       /\ rows = {}
       /\ cards = <<>>
       /\ sheet = <<[AnnRecord EXCEPT !.status = "Contacted"]>>
       /\ carded = {}
       /\ flight = {}
       /\ sync_history = <<>>
       /\ last = [op |-> "init", lead |-> NoLead, card |-> NoCard,
                  ret |-> Ret(TRUE, "", "", ""), calls |-> <<>>, stats |-> ZeroStats,
                  again |-> FALSE]
    \/ /\ Config = FullConfig
       /\ rows = LegacyRows
       /\ cards = <<AnnCard>>
       /\ sheet = <<SheetRecord("", "Bob", "b@x.io"), AnnRecord>>
       /\ carded = {AnnId}
       /\ flight = {}
       /\ sync_history = <<>>
       /\ last = [op |-> "init", lead |-> NoLead, card |-> NoCard,
                  ret |-> Ret(TRUE, "", "", ""), calls |-> <<>>, stats |-> ZeroStats,
                  again |-> FALSE]

SpecScan == InitScan /\ [][NextScan]_vars

\* ------------------------------------------------------------------ the simple engine's runs
\* python sync_simple.py run again and again over a sheet with one lead, whose
\* card is on the board and is or is not recorded in the table, while the
\* user of the board moves the card.

\* the bound on the rows of sync_history
MaxHistory == 2

SimpleStatuses == {"New", "Contacted", "Completed"}

InitSimple ==
    /\ Config = FullConfig
    /\ rows \in {{}, LegacyRows}
    /\ \E lane \in {"LN", "LC"} : cards = <<[AnnCard EXCEPT !.idList = lane]>>
    /\ \E s \in SimpleStatuses : sheet = <<[AnnRecord EXCEPT !.status = s]>>
    /\ carded = {r.lead_id : r \in rows}
    /\ flight = {}
    /\ sync_history = <<>>
    /\ last = [op |-> "init", lead |-> NoLead, card |-> NoCard,
               ret |-> Ret(TRUE, "", "", ""), calls |-> <<>>, stats |-> ZeroStats,
               again |-> FALSE]

\* SimpleSyncEngine.sync, run by run_sync
SimpleSyncPass(rem) ==
    LET w == SimpleSync(Config,
                        [rows |-> rows, cards |-> cards, sheet |-> sheet,
                         stats |-> ZeroStats, calls |-> <<>>, history |-> sync_history],
                        SheetsClient, rem)
    IN  /\ Len(w.history) <= MaxHistory
        /\ Becomes(w)
        /\ sync_history' = w.history
        /\ last' = Last("simple", NoLead, NoCard, Ret(TRUE, "", "", ""), w)
        /\ UNCHANGED flight

NextSimple ==
    \/ \E rem \in RemoteAnswers : SimpleSyncPass(rem)
    \/ \E i \in 1..MaxCards, lane \in {"LN", "LC", ExtraList} : UserMovesCard(i, lane)

SpecSimple == InitSimple /\ [][NextSimple]_vars

\* ------------------------------------------------------------------ leads without an id column
\* The lead-side events of a sheet without id column whose leads have long
\* names or an underscore in the name: two people of the same long name with
\* different emails, and two leads whose name and email join to the same text.

LongName == "Alexandria Smith-Jones"

LongNameEvents ==
    {LeadData(LongName, e, s) : e \in {"a1@x.io", "a2@x.io"}, s \in LeadStatusInputs}
        \cup {LeadData("Ann_b", "c@x.io", "New"), LeadData("Ann", "b_c@x.io", "New")}

InitIds ==
    /\ Config = FullConfig
    /\ rows = {}
    /\ cards = <<>>
    /\ sheet = <<>>
    /\ carded = {}
    /\ flight = {}
    /\ sync_history = <<>>
    /\ last = [op |-> "init", lead |-> NoLead, card |-> NoCard,
               ret |-> Ret(TRUE, "", "", ""), calls |-> <<>>, stats |-> ZeroStats,
               again |-> FALSE]

NextIds == \E d \in LongNameEvents, rem \in RemoteAnswers : SheetsWebhook(d, rem)

SpecIds == InitIds /\ [][NextIds]_vars

\* ------------------------------------------------------------------ one remote call
\* LeadClient._retry_on_rate_limit and TaskClient._make_request, one attempt
\* of the loop at a time.  flight holds the call: the adapter, the attempt the
\* loop is at (range(max_retries), from 0), the delays it slept, and how it
\* ended ("" while it runs, "returned", "none" for a return of None, "raised").

\* max_retries
MaxRetries == 3

\* the Retry-After header of a 429 response that carries one, in seconds
RetryAfter == 7

\* what one attempt of the lead adapter meets: the wrapped function returns,
\* or raises an exception that names a rate limit, or raises another one
LeadResponses == {"ok", "rate", "error"}

\* what one attempt of the task adapter meets: a 200, a 429 without and with
\* Retry-After, a 401, and a failed request (RequestException, raise_for_status
\* included)
TaskResponses == {"ok", "429", "429h", "401", "failed"}

CallStart(adapter) == [adapter |-> adapter, attempt |-> 0, delays |-> <<>>, result |-> ""]

\* Variant: a rate-limited attempt is not counted
SleptUncounted(f, delay, exhausted) == [f EXCEPT !.delays = Append(@, delay)]

\* the loop after an attempt that slept: the next attempt, or past the last
\* one the way the function ends then
Slept(f, delay, exhausted) ==
    [f EXCEPT !.delays = Append(@, delay),
              !.attempt = @ + 1,
              !.result = IF f.attempt + 1 >= MaxRetries THEN exhausted ELSE ""]

\* LeadClient._retry_on_rate_limit, one attempt
RetryOnRateLimit(f, resp) ==
    CASE resp = "ok"    -> [f EXCEPT !.result = "returned"]
      [] resp = "rate"  -> Slept(f, 2 ^ f.attempt, "raised")
      [] resp = "error" -> [f EXCEPT !.result = "raised"]

\* TaskClient._make_request, one attempt
MakeRequest(f, resp) ==
    CASE resp = "ok"     -> [f EXCEPT !.result = "returned"]
      [] resp = "429"    -> Slept(f, 2 ^ f.attempt, "none")
      [] resp = "429h"   -> Slept(f, RetryAfter, "none")
      [] resp = "401"    -> [f EXCEPT !.result = "raised"]
      [] resp = "failed" -> IF f.attempt < MaxRetries - 1
                            THEN Slept(f, 2 ^ f.attempt, "none")
                            ELSE [f EXCEPT !.result = "none"]

InitRetry ==
    /\ Config = FullConfig
    /\ rows = {}
    /\ cards = <<>>
    /\ sheet = <<>>
    /\ carded = {}
    /\ flight = {}
    /\ sync_history = <<>>
    /\ last = [op |-> "init", lead |-> NoLead, card |-> NoCard,
               ret |-> Ret(TRUE, "", "", ""), calls |-> <<>>, stats |-> ZeroStats,
               again |-> FALSE]

Running == \E f \in flight : f.result = ""

\* an adapter method starts a remote call
CallBegins(adapter) ==
    /\ ~Running
    /\ flight' = {CallStart(adapter)}
    /\ UNCHANGED <<Config, rows, cards, sheet, carded, sync_history, last>>

\* the call as it is after an attempt; last records how a call ended
Attempted(op, g) ==
    /\ flight' = {g}
    /\ IF g.result = "" THEN UNCHANGED last
       ELSE last' = Last(op, NoLead, NoCard, Ret(g.result = "returned", g.result, "", ""),
                         [calls |-> <<>>, stats |-> ZeroStats])
    /\ UNCHANGED <<Config, rows, cards, sheet, carded, sync_history>>

LeadAttempt(resp) ==
    \E f \in flight :
        /\ f.adapter = "lead" /\ f.result = ""
        /\ Attempted("_retry_on_rate_limit", RetryOnRateLimit(f, resp))

TaskAttempt(resp) ==
    \E f \in flight :
        /\ f.adapter = "task" /\ f.result = ""
        /\ Attempted("_make_request", MakeRequest(f, resp))

AnyAttempt ==
    \/ \E resp \in LeadResponses : LeadAttempt(resp)
    \/ \E resp \in TaskResponses : TaskAttempt(resp)

NextRetry ==
    \/ \E adapter \in {"lead", "task"} : CallBegins(adapter)
    \/ \E resp \in LeadResponses : LeadAttempt(resp)
    \/ \E resp \in TaskResponses : TaskAttempt(resp)

\* a call that runs makes its next attempt: the loop is plain sequential code
SpecRetry == InitRetry /\ [][NextRetry]_vars /\ WF_vars(AnyAttempt)

\* ------------------------------------------------------------------ properties

\* the status the task adapter's mapping gives a lane
LaneStatus(list_id) == GetStatusFromListId(Config, list_id)

\* the lead-side status writes among the remote requests of a pass
LeadWrites(calls) == {i \in 1..Len(calls) : calls[i].op = "update_lead_status"}

\* the card creations a pass made for a lead
CreatedFor(calls, lead_id) ==
    {i \in 1..Len(calls) : /\ calls[i].op = "create_task_in_list"
                           /\ calls[i].ok
                           /\ calls[i].key = lead_id}

\* the cards of a board that carry a lead id in their description
CardsOf(board, lead_id) ==
    {i \in 1..Len(board) : ParseLeadId(board[i].desc) = lead_id}

IsPending(r) == StartsWith(r.card_id, Pending)

\* C1: a lead-side event delivered twice in a row with the same fields leaves
\* the lead's row as the first delivery left it, and the board holds at most
\* one card for that lead.
LeadSideIdempotent ==
    [][ (last'.op = "sheets" /\ last'.again)
            => LET id == LeadIdOf(last'.lead)
               IN  /\ GetMappingByLeadId(rows', id) = GetMappingByLeadId(rows, id)
                   /\ Cardinality(CardsOf(cards', id)) <= 1
                   /\ Cardinality(CreatedFor(last.calls, id))
                          + Cardinality(CreatedFor(last'.calls, id)) <= 1 ]_vars

LeadSideRepeated ==
    /\ last.op = "sheets"
    /\ last.again
    /\ last.ret.success
    /\ GetMappingByLeadId(rows, LeadIdOf(last.lead)) # {}

\* The step is a task-side move event of the engine for a managed card whose
\* new lane maps to another status than the stored one, the row last written
\* by the given side.
MoveOfManagedCard(source) ==
    /\ last'.op = "trello"
    /\ last'.card.action_type = "updateCard"
    /\ LET rec == GetRecordByCardId(rows, last'.card.card_id)
       IN  /\ rec # {}
           /\ Row(rec).current_status # LaneStatus(last'.card.list_id)
           /\ Row(rec).last_sync_source = source

\* C3: a task-side move of a managed card to a lane of another status, the row
\* last written by the lead side, returns success marked as skipped for echo,
\* leaves the table unchanged and issues no lead-side write.
EchoSkipWritesNothing ==
    [][ MoveOfManagedCard("sheets")
            => /\ last'.ret.success
               /\ last'.ret.echo_skipped
               /\ rows' = rows
               /\ LeadWrites(last'.calls) = {} ]_vars

\* C4: a task-side move of a managed card to a lane of another status, the row
\* last written by the task side, records the move in the row (status of the
\* lane, the lane, source trello) and pushes that status to the lead's sheet row.
TrelloMoveApplied ==
    [][ MoveOfManagedCard("trello")
            => LET c   == last'.card
                   rec == GetRecordByCardId(rows', c.card_id)
               IN  /\ rec # {}
                   /\ Row(rec).current_status = LaneStatus(c.list_id)
                   /\ Row(rec).trello_list_id = c.list_id
                   /\ Row(rec).last_sync_source = "trello"
                   /\ \E i \in LeadWrites(last'.calls) :
                          /\ last'.calls[i].key = Row(rec).lead_id
                          /\ last'.calls[i].arg = LaneStatus(c.list_id) ]_vars

\* C5: a lead-side event with name, email and status New for a lead without a
\* row and without a card, all remote requests answered, creates exactly one
\* card, and after the pass the row holds that card's id and the New lane.
NewLeadGetsCard ==
    [][ ( /\ last'.op = "sheets"
          /\ last'.lead = LeadData("Ann", "a@x.io", "New")
          /\ GetMappingByLeadId(rows, AnnId) = {}
          /\ CardsOf(cards, AnnId) = {}
          /\ \A i \in 1..Len(last'.calls) :
                 last'.calls[i].op = "found_card" \/ last'.calls[i].ok )
            => LET rec == GetMappingByLeadId(rows', AnnId)
               IN  /\ Cardinality(CreatedFor(last'.calls, AnnId)) = 1
                   /\ rec # {}
                   /\ ~IsPending(Row(rec))
                   /\ \E i \in 1..Len(cards') : cards'[i].id = Row(rec).card_id
                   /\ Row(rec).trello_list_id = Config.TRELLO_NEW_LIST_ID ]_vars

\* C6: a lead-side event without name or without email is rejected with the
\* error "Incomplete data", writes no row and makes no remote request.
IncompleteLeadRejected ==
    [][ ( /\ last'.op = "sheets"
          /\ (~Truthy(last'.lead.lead_name) \/ ~Truthy(last'.lead.lead_email)) )
            => /\ ~last'.ret.success
               /\ last'.ret.error = "Incomplete data"
               /\ rows' = rows
               /\ last'.calls = <<>> ]_vars

KeysUnique ==
    \A r1, r2 \in rows :
        (r1.lead_id = r2.lead_id \/ r1.card_id = r2.card_id) => r1 = r2

InsertRefused ==
    /\ last.op = "create_record_with_card"
    /\ ~last.ret.success
    /\ Cardinality(rows) = 2
    /\ \E r \in rows : r.card_id = last.card.card_id /\ r.lead_id # last.lead.lead_id

\* C9: every row's current_status is one of New, Contacted, Qualified, Closed.
StatusInVocabulary ==
    \A r \in rows : r.current_status \in Statuses

ConfiguredLane(s) == DictGet(TRELLO_LIST_MAPPING(Config), s, Config.TRELLO_NEW_LIST_ID)

\* C11: _map_status_to_list_id returns the configured lane of each of the four
\* statuses, and the New lane for a status whose lane is not set and for an
\* unrecognized or empty status.
LaneMappingTotal ==
    (last.op = "_map_status_to_list_id" /\ last.lead.status \in Statuses \cup {"Lost", ""})
        => /\ last.ret.success
           /\ last.ret.action = ConfiguredLane(last.lead.status)

\* C12: with the four lanes set to distinct ids, the lane of a status maps back
\* to that status and any other lane maps to New, for the engine's
\* _map_list_id_to_status and for the adapter's _get_status_from_list_id.
MapperBidirectional ==
    ( /\ last.op \in {"_map_list_id_to_status", "_get_status_from_list_id"}
      /\ Config = FullConfig )
        => /\ last.ret.success
           /\ \A st \in Statuses :
                  ConfiguredLane(st) = last.card.list_id => last.ret.action = st
           /\ (\A st \in Statuses : ConfiguredLane(st) # last.card.list_id)
                  => last.ret.action = "New"

\* the records of a sheet that match a lead by the id column, by the id derived
\* from name and email, and by name and email directly
ByIdColumn(sh, lead) == {i \in 1..Len(sh) : MatchById(sh[i], lead.lead_id)}

ByDerivedId(sh, lead) == {i \in 1..Len(sh) : MatchByNameEmailId(sh[i], lead.lead_id)}

ByNameEmail(sh, lead) ==
    {i \in 1..Len(sh) : MatchDirect(sh[i], lead.lead_name, lead.lead_email)}

\* the records update_lead_status is to choose from: those matching by id if
\* any, else those matching by derived id if any, else those matching directly
Preferred(sh, lead) ==
    IF ByIdColumn(sh, lead) # {} THEN ByIdColumn(sh, lead)
    ELSE IF ByDerivedId(sh, lead) # {} THEN ByDerivedId(sh, lead)
    ELSE ByNameEmail(sh, lead)

\* C13: an answered update_lead_status writes the status cell of exactly one
\* record: one matching by the id column if there is any in the sheet, else one
\* matching by the derived id, else one matching by name and email.
IdMatchFirst ==
    [][ ( /\ last'.op = "update_lead_status"
          /\ last'.ret.error = ""
          /\ Preferred(sheet, last'.lead) # {} )
            => /\ last'.ret.success
               /\ \E i \in Preferred(sheet, last'.lead) :
                      sheet' = [sheet EXCEPT ![i].status = last'.lead.status] ]_vars

\* C14: a task-side event for a card that has no row returns success, leaves
\* the table unchanged and makes no lead-side write.
UnknownCardIsNoOp ==
    [][ ( /\ last'.op = "trello"
          /\ Truthy(last'.card.card_id)
          /\ GetRecordByCardId(rows, last'.card.card_id) = {} )
            => /\ last'.ret.success
               /\ rows' = rows
               /\ LeadWrites(last'.calls) = {} ]_vars

\* the remote steps of a pass that failed: a card creation without card id, a
\* card move or a lead-side status update that returned false
FailedSteps(calls) ==
    {i \in 1..Len(calls) :
        /\ calls[i].op \in {"create_task_in_list", "update_task", "update_lead_status"}
        /\ ~calls[i].ok}

\* C15: a pass in which a remote step failed returns a failure outcome.
FailedStepReported ==
    (last.op \in {"sheets", "trello", "endpoint"} /\ FailedSteps(last.calls) # {})
        => ~last.ret.success

\* the pass got no card for the lead: none created, none found and recorded
NoCardFor(calls, lead_id) ==
    \A i \in 1..Len(calls) :
        (calls[i].op \in {"create_task_in_list", "found_card"} /\ calls[i].key = lead_id)
            => ~calls[i].ok

\* C16: a lead-side pass that inserted the lead's row and then failed to
\* create a card for it leaves that row in the table, with the lead's name,
\* email, phone, company and status and a PENDING_ card_id.
UpsertRowKept ==
    [][ ( /\ last'.op = "sheets"
          /\ Truthy(last'.lead.lead_name)
          /\ GetMappingByLeadId(rows, LeadIdOf(last'.lead)) = {}
          /\ NoCardFor(last'.calls, LeadIdOf(last'.lead)) )
            => LET d   == last'.lead
                   rec == GetMappingByLeadId(rows', LeadIdOf(d))
               IN  /\ rec # {}
                   /\ Row(rec).lead_name = d.lead_name
                   /\ Row(rec).lead_email = d.lead_email
                   /\ Row(rec).lead_phone = d.lead_phone
                   /\ Row(rec).lead_company = d.lead_company
                   /\ Row(rec).current_status = d.status
                   /\ Row(rec).card_id = Pending \o LeadIdOf(d) ]_vars

CreationFailedRowPending ==
    /\ last.op = "sheets"
    /\ ~last.ret.success
    /\ ~last.again
    /\ cards = <<>>
    /\ \E i \in 1..Len(last.calls) : last.calls[i].op = "get_all_tasks"
    /\ NoCardFor(last.calls, LeadIdOf(last.lead))
    /\ \E r \in rows : r.lead_id = LeadIdOf(last.lead) /\ IsPending(r)

\* C20: a lead-side event for a lead without a linked card, a card whose
\* description carries the lead id being on the board, attaches that card (the
\* row gets the card's id and lane) and creates no card.
ExistingCardAttached ==
    [][ ( /\ last'.op = "sheets"
          /\ Truthy(last'.lead.lead_name)
          /\ \A r \in GetMappingByLeadId(rows, LeadIdOf(last'.lead)) : IsPending(r)
          /\ CardsOf(cards, LeadIdOf(last'.lead)) # {}
          /\ \A i \in 1..Len(last'.calls) :
                 last'.calls[i].op = "get_all_tasks" => last'.calls[i].ok )
            => LET id  == LeadIdOf(last'.lead)
                   rec == GetMappingByLeadId(rows', id)
               IN  /\ rec # {}
                   /\ \E i \in CardsOf(cards, id) :
                          /\ Row(rec).card_id = cards[i].id
                          /\ Row(rec).trello_list_id = cards'[i].idList
                   /\ CreatedFor(last'.calls, id) = {}
                   /\ Len(cards') = Len(cards) ]_vars

\* the card moves of a pass that succeeded, for one card
MovedOk(calls, card_id) ==
    {i \in 1..Len(calls) : /\ calls[i].op = "update_task"
                           /\ calls[i].ok
                           /\ calls[i].key = card_id}

\* C18: a lead-side pass changes the lane recorded in the row of a linked card
\* only if a remote move of that card succeeded in the pass; without one the
\* row keeps the lane it had.
LaneChangesAfterMove ==
    [][ last'.op = "sheets"
            => \A r \in rows : \A r2 \in rows' :
                   ( /\ r.lead_id = LeadIdOf(last'.lead)
                     /\ ~IsPending(r)
                     /\ r2.lead_id = r.lead_id
                     /\ r2.trello_list_id # r.trello_list_id )
                       => MovedOk(last'.calls, r.card_id) # {} ]_vars

\* a lead-side event that calls for a move of the lead's linked card, and no
\* move succeeded: the row has the new status and the lane it had
LaneKeptWithoutMove ==
    /\ last.op = "sheets"
    /\ ~last.again
    /\ \E r \in rows :
           /\ r.lead_id = LeadIdOf(last.lead)
           /\ ~IsPending(r)
           /\ r.current_status = "contacted"
           /\ r.last_sync_source = "sheets"
           /\ r.trello_list_id = "LN"
           /\ MovedOk(last.calls, r.card_id) = {}

\* C19: a caller that read a card's row, and writes it with
\* update_from_trello_move after another writer changed that row, changes
\* nothing: the write applies only to the row as it was read.
StoreWriteIsCompareAndSet ==
    [][ ( /\ last'.op = "update_from_trello_move"
          /\ flight # {}
          /\ Row(flight).card_id = last'.card.card_id
          /\ GetRecordByCardId(rows, last'.card.card_id) # flight )
            => rows' = rows ]_vars

\* the lead ids of the events the server receives
EventLeads == {LeadIdOf(d) : d \in {e \in LeadEvents : Truthy(e.lead_name)}}

PendingCardRetried ==
    [][ ( /\ last'.op = "sheets"
          /\ Truthy(last'.lead.lead_name)
          /\ \E r \in rows : r.lead_id = LeadIdOf(last'.lead) /\ IsPending(r) )
            => \/ \E r \in rows' : r.lead_id = LeadIdOf(last'.lead) /\ ~IsPending(r)
               \/ \E i \in 1..Len(last'.calls) :
                      /\ last'.calls[i].op = "create_task_in_list"
                      /\ last'.calls[i].key = LeadIdOf(last'.lead)
                      /\ ~last'.calls[i].ok ]_vars

\* the request of a pass that listed the leads or the cards was answered
Listed(calls, op) == \E i \in 1..Len(calls) : calls[i].op = op /\ calls[i].ok

\* C22: after a full scan that listed the leads and in which the board refused
\* no creation, every listed lead has a row with a real card id.
ScanLinksEveryLead ==
    [][ ( /\ last'.op = "full"
          /\ Listed(last'.calls, "get_all_leads")
          /\ \A i \in 1..Len(last'.calls) :
                 last'.calls[i].op = "create_task_in_list" => last'.calls[i].ok )
            => \A k \in 1..Len(sheet) :
                   \E r \in rows' : r.lead_id = LeadOf(sheet[k]).id /\ ~IsPending(r) ]_vars

\* C23: a full scan that listed the cards brings the row of every linked card
\* found in another lane than that of the row's status to the card's lane and
\* that lane's status, and writes the status to the lead side, whatever the
\* row's last_sync_source.
ScanFollowsMovedCards ==
    [][ (last'.op = "full" /\ Listed(last'.calls, "get_all_tasks"))
            => \A i \in 1..Len(cards) : \A r \in GetRecordByCardId(rows, cards[i].id) :
                   cards[i].idList # ConfiguredLane(r.current_status)
                       => /\ \E r2 \in rows' :
                                 /\ r2.card_id = r.card_id
                                 /\ r2.trello_list_id = cards[i].idList
                                 /\ r2.current_status = LaneStatus(cards[i].idList)
                          /\ \E k \in LeadWrites(last'.calls) :
                                 /\ last'.calls[k].key = r.lead_id
                                 /\ last'.calls[k].arg = LaneStatus(cards[i].idList) ]_vars

\* C24: a scan ends only past the last card it listed, having looked at every
\* lead it listed, whatever failed on the way; each failure is counted.
ScanSurvivesFailures ==
    [][ (flight # {} /\ flight' = {})
            => LET f == Row(flight)
               IN  /\ last'.stats.leads_checked = Len(f.leads)
                   /\ \/ f.pc \in {"card", "sheet"} /\ f.i = Len(f.tasks)
                      \/ /\ f.tasks = <<>>
                         /\ \/ f.pc = "tasks"
                            \/ f.pc \in {"lead", "create", "record"} /\ f.i = Len(f.leads)
                   /\ last'.stats.errors >= f.stats.errors ]_vars

\* a scan over two leads and a card that failed on the first lead and on the
\* card
ScanWentOnAfterFailure ==
    /\ last.op = "full"
    /\ last.stats.leads_checked = 2
    /\ last.stats.errors = 2
    /\ Listed(last.calls, "get_all_tasks")

\* the listings of a pass that were not answered
FailedListings(calls) ==
    {i \in 1..Len(calls) : calls[i].op \in {"get_all_tasks", "get_all_leads"} /\ ~calls[i].ok}

\* C25: a pass or scan in which a listing of the cards or of the leads failed
\* ends as failed (a failure outcome, or an error counted by the scan) and
\* requests no card after the failed listing.
FailedListingFailsRun ==
    (last.op \in {"sheets", "full"} /\ FailedListings(last.calls) # {})
        => /\ IF last.op = "full" THEN last.stats.errors > 0 ELSE ~last.ret.success
           /\ \A i \in FailedListings(last.calls) : \A k \in 1..Len(last.calls) :
                  last.calls[k].op = "create_task_in_list" => k < i

\* the delays a call may sleep before its attempts: 2^attempt, or for the task
\* adapter the Retry-After of the response
BackoffOf(f, i) == {2 ^ (i - 1)} \cup (IF f.adapter = "task" THEN {RetryAfter} ELSE {})

\* C26 as stated: every remote call makes at most max_retries attempts, sleeps
\* 2^attempt after a rate-limited one, ends in failure once the attempts are
\* used up, and terminates.
BackoffDoubles ==
    \A f \in flight :
        /\ f.attempt <= MaxRetries
        /\ Len(f.delays) <= MaxRetries
        /\ \A i \in 1..Len(f.delays) : f.delays[i] = 2 ^ (i - 1)
        /\ f.attempt = MaxRetries => f.result \in {"raised", "none"}

\* C26, amended: as stated, but the task adapter sleeps the Retry-After of a
\* 429 response that carries one instead of 2^attempt.
BoundedRetry ==
    /\ [](\A f \in flight :
            /\ f.attempt <= MaxRetries
            /\ Len(f.delays) <= MaxRetries
            /\ \A i \in 1..Len(f.delays) : f.delays[i] \in BackoffOf(f, i)
            /\ f.attempt = MaxRetries => f.result \in {"raised", "none"})
    /\ (Running ~> ~Running)

\* a call of the task adapter that was rate-limited on every attempt, slept the
\* Retry-After of a response once and 2^attempt otherwise, and gave up
RetriesExhausted ==
    \E f \in flight :
        /\ f.adapter = "task"
        /\ f.attempt = MaxRetries
        /\ f.delays = <<1, RetryAfter, 4>>
        /\ f.result = "none"

SameStatusMoveIsNoOp ==
    [][ ( /\ last'.op \in {"trello", "endpoint"}
          /\ last'.card.action_type = "updateCard"
          /\ \E r \in GetRecordByCardId(rows, last'.card.card_id) :
                 r.current_status = LaneStatus(last'.card.list_id) )
            => /\ rows' = rows
               /\ LeadWrites(last'.calls) = {} ]_vars

\* C29: create_record_with_card for a card no other lead holds succeeds
\* whether or not the lead has a row, and leaves the lead's row with the card's
\* id and lane.
AttachCardIsUpsert ==
    [][ ( /\ last'.op = "create_record_with_card"
          /\ \A r \in rows : r.card_id = last'.card.card_id
                                => r.lead_id = last'.lead.lead_id )
            => /\ last'.ret.success
               /\ \E r \in rows' : /\ r.lead_id = last'.lead.lead_id
                                   /\ r.card_id = last'.card.card_id
                                   /\ r.trello_list_id = "LN" ]_vars

\* C30: upsert_record_from_sheets leaves the lead's row with the name, email,
\* phone, company and status it was given and last_sync_source sheets, and
\* every other row as it was; for a lead that had a row it returns 'updated'
\* and keeps the row's card_id, card_title and lane, for a lead that had none
\* it returns 'created' and the row has card_id PENDING_<lead_id> and lane
\* PENDING.
UpsertFrame ==
    [][ last'.op = "upsert_record_from_sheets"
            => LET d   == last'.lead
                   old == GetMappingByLeadId(rows, d.lead_id)
                   new == GetMappingByLeadId(rows', d.lead_id)
               IN  /\ new # {}
                   /\ Row(new).lead_name = d.lead_name
                   /\ Row(new).lead_email = d.lead_email
                   /\ Row(new).lead_phone = d.lead_phone
                   /\ Row(new).lead_company = d.lead_company
                   /\ Row(new).current_status = d.status
                   /\ Row(new).last_sync_source = "sheets"
                   /\ {r \in rows' : r.lead_id # d.lead_id}
                          = {r \in rows : r.lead_id # d.lead_id}
                   /\ IF old # {}
                      THEN /\ last'.ret.action = "updated"
                           /\ Row(new).card_id = Row(old).card_id
                           /\ Row(new).card_title = Row(old).card_title
                           /\ Row(new).trello_list_id = Row(old).trello_list_id
                      ELSE /\ last'.ret.action = "created"
                           /\ Row(new).card_id = Pending \o d.lead_id
                           /\ Row(new).trello_list_id = "PENDING" ]_vars

\* an upsert that renamed the lead of a linked row moved to another lane,
\* beside the row of another lead
LinkedRowUpserted ==
    /\ last.op = "upsert_record_from_sheets"
    /\ last.ret.action = "updated"
    /\ last.lead.lead_name = "Bea"
    /\ \E r \in rows : /\ r.lead_id = last.lead.lead_id
                       /\ r.card_id = "c1"
                       /\ r.card_title = "Ann (a@x.io)"
                       /\ r.trello_list_id = "LC"
                       /\ r.lead_name = "Bea"
    /\ \E r \in rows : r.lead_id # last.lead.lead_id

\* C31: a lead-side event for a lead whose row holds a real card id sends the
\* lead's current data to that card (an update_task request for the card),
\* whether or not the card has to change lane.
LinkedCardRefreshed ==
    [][ (last'.op = "sheets" /\ Truthy(last'.lead.lead_name))
            => \A r \in rows :
                  (r.lead_id = LeadIdOf(last'.lead) /\ Truthy(r.card_id) /\ ~IsPending(r))
                      => \E i \in 1..Len(last'.calls) :
                            /\ last'.calls[i].op = "update_task"
                            /\ last'.calls[i].key = r.card_id ]_vars

\* the status has no lane in this deployment: it is none of the four, or its
\* lane is not set
NoLaneFor(s) ==
    (IF Truthy(s) THEN Title(Strip(s)) ELSE "New") \notin DOMAIN TRELLO_LIST_MAPPING(Config)

\* the requests of the step: those of the pass that ended and of the scan that runs
StepCalls(l, fl) ==
    {l.calls[i] : i \in 1..Len(l.calls)}
        \cup UNION {{f.calls[i] : i \in 1..Len(f.calls)} : f \in fl}

Attempts(calls) ==
    {i \in 1..Len(calls) :
        calls[i].op \in {"create_task_in_list", "update_task", "update_lead_status"}}

\* C34: each create, update or move a pass attempts, failed or not, appends one
\* row to sync_history, and the rows already there stay as they are.
EveryAttemptRecorded ==
    [][ /\ Len(sync_history') = Len(sync_history) + Cardinality(Attempts(last'.calls))
        /\ SubSeq(sync_history', 1, Len(sync_history)) = sync_history ]_vars

\* the pass issued the request op for key and it succeeded
Did(calls, op, key) ==
    \E i \in 1..Len(calls) : calls[i].op = op /\ calls[i].key = key /\ calls[i].ok

AdapterLane(s) ==
    LET ut == UpdateTask(Config, <<[AnnCard EXCEPT !.idList = ExtraList]>>, "c1", s,
                         Null, Null, TRUE)
    IN  IF ut.success THEN {ut.cards[1].idList} ELSE {}

\* C35: for every status, differently cased and unrecognized ones included,
\* _map_status_to_list_id returns the lane update_task moves a card to for
\* that status, so the lane recorded after a move is the lane of the card.
EngineAndAdapterLaneAgree ==
    (last.op = "_map_status_to_list_id" /\ Truthy(last.lead.status))
        => /\ last.ret.success
           /\ AdapterLane(last.lead.status) = {last.ret.action}

\* every request of the pass was answered
AllAnswered(calls) == \A i \in 1..Len(calls) : calls[i].ok

\* C36: a managed card that its user moved (it is in another lane than the row
\* records) is followed, whatever the row's last_sync_source: a full scan, and
\* a task-side event for the move unless it is skipped as an echo and left to
\* the scan, sets the row's status to that of the card's lane and writes a
\* changed status to the lead side.
UserMoveNotLost ==
    [][ \A i \in 1..Len(cards) : \A r \in GetRecordByCardId(rows, cards[i].id) :
           ( /\ cards[i].idList # r.trello_list_id
             /\ AllAnswered(last'.calls)
             /\ \/ last'.op = "full" /\ Listed(last'.calls, "get_all_tasks")
                \/ /\ last'.op = "trello"
                   /\ last'.card = CardData(cards[i].id, cards[i].idList, "updateCard")
                   /\ ~last'.ret.echo_skipped )
               => /\ \E r2 \in rows' :
                         /\ r2.card_id = r.card_id
                         /\ r2.current_status = LaneStatus(cards[i].idList)
                  /\ r.current_status # LaneStatus(cards[i].idList)
                         => \E k \in LeadWrites(last'.calls) :
                               /\ last'.calls[k].key = r.lead_id
                               /\ last'.calls[k].arg = LaneStatus(cards[i].idList) ]_vars

\* the requests of a pass that write to a remote side
RemoteWrites(calls) ==
    {i \in 1..Len(calls) :
        calls[i].op \in {"create_task_in_list", "update_task", "update_lead_status"}}

OtherLeadsRowsKept ==
    [][ (last'.op = "sheets" /\ ~Truthy(last'.lead.lead_id))
            => \A r \in rows :
                  (r.lead_name # last'.lead.lead_name \/ r.lead_email # last'.lead.lead_email)
                      => r \in rows' ]_vars

\* C40: what the Trello webhook endpoint does on an action is what the
\* engine's task-side entry point does on the same card, lane and action type:
\* the same table and sheet afterwards and the same lead-side writes.
EndpointIsEngine ==
    [][ last'.op = "endpoint"
            => \E rem \in RemoteAnswers :
                  LET r == SyncFromTrelloWebhook(Config, World, last'.card, SheetsClient, rem)
                  IN  /\ rows' = r.w.rows
                      /\ sheet' = r.w.sheet
                      /\ last'.calls = r.w.calls ]_vars

====
